---- MODULE Spec2Model ----
(***************************************************************************)
(* Decode task supervisor of the video pipeline service                    *)
(* (src/app/routes.py, src/app/services/ffmpeg_utils.py, src/config.py).   *)
(*                                                                         *)
(* State: the task registry decode_tasks and its lock task_lock, the       *)
(* decoder subprocesses created by subprocess.Popen, the number of .jpg    *)
(* files of every camera directory, the handler that runs on the event     *)
(* loop, and the handlers suspended in an await.                           *)
(*                                                                         *)
(* Scheduling: every route handler is an `async def` coroutine, so the     *)
(* handlers run on one event loop.  A handler keeps the loop from its      *)
(* first statement to its return or to an `await`; time.sleep and          *)
(* Popen.wait block the loop, they do not release it.  The only `await` of *)
(* the supervisor is `await file.read()` (routes.py:145).  The decoder     *)
(* subprocesses are OS processes: they exit and write frames at any time,  *)
(* also while a handler sleeps.                                            *)
(***************************************************************************)
EXTENDS Integers, Sequences, FiniteSets, TLC

\* ------------------------------------------------------------------ bounds

\* The camera directories under OUTPUT_FOLDER.
Cams == {"cam1", "cam2"}

\* The camera identifiers that the callers of Spec use.
Called == {"cam1"}

\* Start calls that can be suspended in `await file.read()` at a time.
MaxAwaiting == 1

\* Decoder subprocesses the host can hold at a time; Popen raises OSError
\* beyond it.
MaxProcs == 2

\* Frame files a camera directory can hold.
MaxFrames == 1

\* Exit codes of a decoder that exits by itself.
ExitCodes == {0, 1}

\* ---------------------------------------------------------------- config

\* config.py:15  HW_ACCEL_OPTIONS, the priority list.
HW_ACCEL_OPTIONS == <<"rkmpp", "v4l2", "rga", "none">>

\* The values of the force_format form field: "None" is Python's None,
\* "cuda" a name that is not in the priority list.
ForceFormats == {"None", "rkmpp", "v4l2", "rga", "none", "cuda"}

\* Outcomes of one probe run of get_best_hwaccel: exit code 0, a nonzero exit
\* code, FileNotFoundError, any other exception of subprocess.run.
ProbeOutcomes == {"ok", "fail", "notfound", "oserror"}

Accels == {HW_ACCEL_OPTIONS[i] : i \in 1..Len(HW_ACCEL_OPTIONS)}

ProbeTables == [Accels \ {"none"} -> ProbeOutcomes]

Pids == 1..MaxProcs

VARIABLES
    decode_tasks,   \* routes.py:26  camera_id -> task dict (a Python dict)
    task_lock,      \* routes.py:27  "free" or "held"
    procs,          \* the decoder subprocesses and their Popen objects
    frames,         \* camera_id -> number of *.jpg files in its directory
    run,            \* the handler invocation that runs on the event loop
    awaiting,       \* camera_id -> start calls suspended in file.read()
    last,           \* the latest event: a camera and what the call on it answered
                    \* (history of the calls, the program does not hold it)
    resolved,       \* the latest call of get_best_hwaccel made on its own: its
                    \* arguments, the probes it ran and what it returned
    built,          \* the latest run of the command-building statements: their
                    \* inputs and the argument lists they made
    at              \* the statement of routes.py the event loop is at, and the
                    \* start calls suspended in their await

vars ==
    <<decode_tasks, task_lock, procs, frames, run, awaiting, last, resolved, built,
      at>>

\* ------------------------------------------------------------ data shapes

\* last_error values: None, and the messages the code builds.  diagnostic
\* tells whether the message holds error_output, the text the decoder wrote
\* to its error stream.
NoError == [kind |-> "none", code |-> 0, diagnostic |-> FALSE]
ErrBothFailed ==
    [kind |-> "Both hardware and software decoding failed", code |-> 0,
     diagnostic |-> TRUE]
ErrSoftwareFailed ==
    [kind |-> "Software decoding failed", code |-> 0, diagnostic |-> TRUE]
ErrFailedToStart ==
    [kind |-> "Failed to start decode", code |-> 0, diagnostic |-> FALSE]
ErrExited(rc) ==
    [kind |-> "Process exited with code", code |-> rc, diagnostic |-> FALSE]

\* routes.py:322  f"Failed to start decode: {str(e)}" for the HTTPException e
\* whose detail is the message detail.  str(e) is the status code and the
\* detail where the framework's HTTPException defines __str__, and the
\* empty string where it does not (the exception is built with keyword
\* arguments only): str_has_detail.
ErrFailedToStartOf(detail, str_has_detail) ==
    [ErrFailedToStart EXCEPT !.diagnostic = str_has_detail /\ detail.diagnostic]

\* A task dict of decode_tasks.  process is a pid, 0 for None.
Task(p, c, s, e) ==
    [process |-> p, output_folder |-> c, status |-> s, last_error |-> e]

\* decode_tasks[camera_id] = task
Put(d, k, v) == [x \in (DOMAIN d) \cup {k} |-> IF x = k THEN v ELSE d[x]]

\* A subprocess created by Popen: the camera whose directory its command
\* writes to and the backend of its command.  It is "running",
\* "terminating" (SIGTERM was sent and it still runs) or "exited" with
\* return code rc.
Proc(c, a) == [cam |-> c, accel |-> a, state |-> "running", rc |-> 0]

\* A subprocess that exited: what is left of it is its return code.
Exited(rc) == [cam |-> "-", accel |-> "-", state |-> "exited", rc |-> rc]

\* A pid that no subprocess has.
Free == [cam |-> "-", accel |-> "-", state |-> "free", rc |-> 0]

\* An event: what a call on camera c answered ("pending" while its handler
\* runs or is suspended), or the exit of the process of the task of camera c.
\* The other fields are set by Started, Repeated, StartBegin (the inputs of
\* a call that was refused for its inputs or that went past the checks),
\* CleanupFrames and CleanupOrphans (the directories that held frames and
\* were emptied).
Event(c, ev) ==
    [cam |-> c, ev |-> ev, force_format |-> "-", launches |-> 0, after |-> "-",
     given |-> "-", cleared |-> {}]

\* routes.py:112-113  the inputs a start call supplies
Given(file, url) ==
    IF file /\ url THEN "both"
    ELSE IF file THEN "file"
    ELSE IF url THEN "url"
    ELSE "neither"

\* routes.py:313-319  the call of the handler rn answered "started": the
\* force_format it was called with and the commands it launched.
Started(rn) ==
    [Event(rn.cam, "started") EXCEPT
        !.force_format = rn.force_format,
        !.launches = IF rn.proc = rn.first THEN 1 ELSE 2]

\* routes.py:126-138  a start call on camera c answered "already_running";
\* `after` is the event on camera c that came before it.
Repeated(c, before) ==
    [Event(c, "already_running") EXCEPT
        !.after = IF before.cam = c THEN before.ev ELSE "-"]

\* The event loop runs no handler.
Idle ==
    [op |-> "idle", cam |-> "-", pc |-> "idle", force_format |-> "None",
     hw_accel |-> "-", proc |-> 0, first |-> 0]

\* The sum of f over the set S.
RECURSIVE Total(_, _)
Total(f, S) ==
    IF S = {} THEN 0
    ELSE LET x == CHOOSE y \in S : TRUE IN f[x] + Total(f, S \ {x})

\* Popen.poll() is None
Alive(ps, p) == ps[p].state \in {"running", "terminating"}

\* routes.py:106  is_process_running(proc): proc and proc.poll() is None
is_process_running(p) == p # 0 /\ Alive(procs, p)

\* routes.py:100  get_frame_count(output_folder)
get_frame_count(c) == frames[c]

\* A variant of the cleanup: the directory of every camera is emptied.
CleanupEveryCamera(f, c) == [x \in DOMAIN f |-> 0]

\* routes.py:29-39  cleanup_camera_frames(camera_id): unlink every *.jpg of
\* the directory of the camera
cleanup_camera_frames(f, c) == [f EXCEPT ![c] = 0]

\* The pid of the next subprocess.
NewPid(ps) == CHOOSE p \in Pids : ps[p].state = "free" /\ \A q \in 1..(p - 1) : ps[q].state # "free"

\* subprocess.Popen(cmd) succeeds while the host has room for a process.
CanSpawn(ps) == \E p \in Pids : ps[p].state = "free"

\* The Popen objects that a task dict or a local variable of the running
\* handler refers to.
Referenced(tasks, rn) ==
    {tasks[c].process : c \in DOMAIN tasks} \cup {rn.proc, rn.first}

\* Python frees a Popen object that nothing refers to; once its process has
\* exited nothing is left of it.  A process that still runs stays, also
\* when nothing refers to its Popen object.
Collect(ps, tasks, rn) ==
    [p \in Pids |->
        IF ps[p].state = "exited" /\ p \notin Referenced(tasks, rn)
        THEN Free ELSE ps[p]]

\* --------------------------------------------------- acceleration resolver

\* The names of a priority list.
Members(options) == {options[i] : i \in 1..Len(options)}

\* Priority lists config.py can set: the list of config.py:15, one with no
\* "none", and lists where "none" is not the last name (config.py:10 is the
\* list of "none" alone).
OptionLists ==
    {HW_ACCEL_OPTIONS, <<"rkmpp", "v4l2", "rga">>, <<"none", "rkmpp">>,
     <<"v4l2", "none", "rkmpp">>}

\* ffmpeg_utils.py:110-133  the loop over the priority list from position i
\* on: the name it returns and the names it ran a probe for, in order.  The
\* result "raise" is an exception of subprocess.run other than
\* FileNotFoundError, which the function does not catch.
RECURSIVE ProbeFrom(_, _, _)
ProbeFrom(options, i, probe) ==
    IF i > Len(options) THEN [result |-> "none", probed |-> <<>>]
    ELSE LET accel == options[i] IN
         IF accel = "none" THEN [result |-> "none", probed |-> <<>>]
         ELSE IF probe[accel] = "ok" THEN [result |-> accel, probed |-> <<accel>>]
         ELSE IF probe[accel] = "oserror"
              THEN [result |-> "raise", probed |-> <<accel>>]
         ELSE LET rest == ProbeFrom(options, i + 1, probe)
              IN [rest EXCEPT !.probed = <<accel>> \o @]

\* A variant of the resolver: a forced name is returned only when its probe
\* exits with code 0.
get_best_hwaccel_verified(options, force_format, probe) ==
    IF force_format # "None" /\ force_format \in Members(options)
        /\ (force_format = "none" \/ probe[force_format] = "ok")
    THEN [result |-> force_format,
          probed |-> IF force_format = "none" THEN <<>> ELSE <<force_format>>]
    ELSE ProbeFrom(options, 1, probe)

\* A variant of the resolver: any forced name is returned, also one that is
\* not in the priority list.
get_best_hwaccel_any(options, force_format, probe) ==
    IF force_format # "None"
    THEN [result |-> force_format, probed |-> <<>>]
    ELSE ProbeFrom(options, 1, probe)

\* ffmpeg_utils.py:104-133  get_best_hwaccel(force_format) with the priority
\* list options and the outcome probe[a] of a probe of backend a
get_best_hwaccel(options, force_format, probe) ==
    IF force_format # "None" /\ force_format \in Members(options)
    THEN [result |-> force_format, probed |-> <<>>]
    ELSE ProbeFrom(options, 1, probe)

\* routes.py:170-174  the backend decode_video resolves: None becomes "rkmpp"
ResolveAccel(force_format, probe) ==
    get_best_hwaccel(HW_ACCEL_OPTIONS,
                     IF force_format = "None" THEN "rkmpp" ELSE force_format,
                     probe).result

\* The backends the resolver can answer with for force_format, over every
\* outcome of the probes.
Resolutions(force_format) ==
    {ResolveAccel(force_format, probe) : probe \in ProbeTables}

\* No call of get_best_hwaccel on its own was made.
NotResolved ==
    [options |-> <<>>, force_format |-> "None",
     probe |-> [a \in Accels \ {"none"} |-> "ok"], probed |-> <<>>,
     result |-> "-"]

\* ------------------------------------------------------- command builder

\* config.py:19  OUTPUT_FOLDER
OUTPUT_FOLDER == "/app/frames"

\* Values of input_path_str: rtsp urls, urls of other schemes and in other
\* case, the path of an uploaded file (UPLOAD_FOLDER / file.filename), and
\* strings shorter than the prefix.
Sources ==
    {"rtsp://h/live", "rtsp://", "RTSP://h/live", "http://h/v.mp4",
     "/app/videos/rtsp:/v.mp4", "rtsp:/", ""}

\* Values of the fps form field.
FpsValues == {1, 25}

\* str.startswith(prefix)
startswith(s, prefix) ==
    Len(s) >= Len(prefix) /\ SubSeq(s, 1, Len(prefix)) = prefix

\* routes.py:151  output_folder = OUTPUT_FOLDER / camera_id, as a string
output_folder(camera_id) == OUTPUT_FOLDER \o "/" \o camera_id

\* A variant of the builder: "rga" is passed to -hwaccel like the other
\* hardware backends.
ffmpeg_cmd_hwaccel_rga(input_path_str, hw_accel, fps, folder) ==
    <<"ffmpeg">>
    \o (IF hw_accel # "none" THEN <<"-hwaccel", hw_accel>> ELSE <<>>)
    \o (IF startswith(input_path_str, "rtsp://")
        THEN <<"-rtsp_transport", "tcp">> ELSE <<>>)
    \o <<"-i", input_path_str, "-vf",
         "fps=" \o ToString(fps) \o ",format=rgb24"
            \o (IF hw_accel = "rga" THEN ",rga=format=rgb24" ELSE ""),
         folder \o "/frame_%04d.jpg">>

\* A variant of the builder: the filter of the backend comes first in the
\* chain.
ffmpeg_cmd_rga_first(input_path_str, hw_accel, fps, folder) ==
    <<"ffmpeg">>
    \o (IF hw_accel \in {"rkmpp", "v4l2"} THEN <<"-hwaccel", hw_accel>> ELSE <<>>)
    \o (IF startswith(input_path_str, "rtsp://")
        THEN <<"-rtsp_transport", "tcp">> ELSE <<>>)
    \o <<"-i", input_path_str, "-vf",
         (IF hw_accel = "rga" THEN "rga=format=rgb24," ELSE "")
            \o "fps=" \o ToString(fps) \o ",format=rgb24",
         folder \o "/frame_%04d.jpg">>

\* A variant of the builder: the frames are numbered from the count of the
\* files that the directory of the camera of the latest event holds.
ffmpeg_cmd_resuming(input_path_str, hw_accel, fps, folder) ==
    <<"ffmpeg">>
    \o (IF hw_accel \in {"rkmpp", "v4l2"} THEN <<"-hwaccel", hw_accel>> ELSE <<>>)
    \o (IF startswith(input_path_str, "rtsp://")
        THEN <<"-rtsp_transport", "tcp">> ELSE <<>>)
    \o <<"-i", input_path_str, "-vf",
         "fps=" \o ToString(fps) \o ",format=rgb24"
            \o (IF hw_accel = "rga" THEN ",rga=format=rgb24" ELSE ""),
         "-start_number", ToString(Total(frames, Cams)),
         folder \o "/frame_%04d.jpg">>

\* routes.py:181-233  ffmpeg_cmd, the command decode_video launches first
ffmpeg_cmd(input_path_str, hw_accel, fps, folder) ==
    IF startswith(input_path_str, "rtsp://")
    THEN IF hw_accel = "rkmpp"
         THEN <<"ffmpeg", "-hwaccel", "rkmpp", "-rtsp_transport", "tcp", "-i", input_path_str,
                "-vf", "fps=" \o ToString(fps) \o ",format=rgb24",
                folder \o "/frame_%04d.jpg">>
         ELSE IF hw_accel = "v4l2"
         THEN <<"ffmpeg", "-hwaccel", "v4l2", "-rtsp_transport", "tcp", "-i", input_path_str,
                "-vf", "fps=" \o ToString(fps) \o ",format=rgb24",
                folder \o "/frame_%04d.jpg">>
         ELSE IF hw_accel = "rga"
         THEN <<"ffmpeg", "-rtsp_transport", "tcp", "-i", input_path_str,
                "-vf", "fps=" \o ToString(fps) \o ",format=rgb24,rga=format=rgb24",
                folder \o "/frame_%04d.jpg">>
         ELSE <<"ffmpeg", "-rtsp_transport", "tcp", "-i", input_path_str,
                "-vf", "fps=" \o ToString(fps) \o ",format=rgb24",
                folder \o "/frame_%04d.jpg">>
    ELSE IF hw_accel = "rkmpp"
         THEN <<"ffmpeg", "-hwaccel", "rkmpp", "-i", input_path_str,
                "-vf", "fps=" \o ToString(fps) \o ",format=rgb24",
                folder \o "/frame_%04d.jpg">>
         ELSE IF hw_accel = "v4l2"
         THEN <<"ffmpeg", "-hwaccel", "v4l2", "-i", input_path_str,
                "-vf", "fps=" \o ToString(fps) \o ",format=rgb24",
                folder \o "/frame_%04d.jpg">>
         ELSE IF hw_accel = "rga"
         THEN <<"ffmpeg", "-i", input_path_str,
                "-vf", "fps=" \o ToString(fps) \o ",format=rgb24,rga=format=rgb24",
                folder \o "/frame_%04d.jpg">>
         ELSE <<"ffmpeg", "-i", input_path_str,
                "-vf", "fps=" \o ToString(fps) \o ",format=rgb24",
                folder \o "/frame_%04d.jpg">>

\* A variant of the software command: the transport flag of an rtsp source
\* is left out.
fallback_cmd_without_transport(input_path_str, fps, folder) ==
    <<"ffmpeg", "-i", input_path_str,
      "-vf", "fps=" \o ToString(fps) \o ",format=rgb24",
      folder \o "/frame_%04d.jpg">>

\* routes.py:253-265  fallback_cmd, the software command decode_video
\* launches when the first process exited within the grace period
fallback_cmd(input_path_str, fps, folder) ==
    IF startswith(input_path_str, "rtsp://")
    THEN <<"ffmpeg", "-rtsp_transport", "tcp", "-i", input_path_str,
           "-vf", "fps=" \o ToString(fps) \o ",format=rgb24",
           folder \o "/frame_%04d.jpg">>
    ELSE <<"ffmpeg", "-i", input_path_str,
           "-vf", "fps=" \o ToString(fps) \o ",format=rgb24",
           folder \o "/frame_%04d.jpg">>

\* config.py:5  FFMPEG_PATH
FFMPEG_PATH == "ffmpeg"

\* ffmpeg_utils.py:146-159  output_template of decode_video2frames_in_jpeg
\* called with a camera_id
output_template(camera_id) ==
    output_folder(camera_id) \o "/" \o camera_id \o "_%04d.jpg"

\* ffmpeg_utils.py:161-230  command, the command of
\* decode_video2frames_in_jpeg
command(input_path, hw_accel, fps, template) ==
    IF hw_accel = "none"
    THEN IF startswith(input_path, "rtsp://")
         THEN <<FFMPEG_PATH, "-rtsp_transport", "tcp", "-i", input_path,
                "-vf", "fps=" \o ToString(fps) \o ",format=rgb24",
                template>>
         ELSE <<FFMPEG_PATH, "-i", input_path,
                "-vf", "fps=" \o ToString(fps) \o ",format=rgb24",
                template>>
    ELSE IF hw_accel = "rkmpp"
    THEN IF startswith(input_path, "rtsp://")
         THEN <<FFMPEG_PATH, "-hwaccel", "rkmpp", "-rtsp_transport", "tcp", "-i", input_path,
                "-vf", "fps=" \o ToString(fps) \o ",format=rgb24",
                template>>
         ELSE <<FFMPEG_PATH, "-hwaccel", "rkmpp", "-i", input_path,
                "-vf", "fps=" \o ToString(fps) \o ",format=rgb24",
                template>>
    ELSE IF hw_accel = "v4l2"
    THEN IF startswith(input_path, "rtsp://")
         THEN <<FFMPEG_PATH, "-hwaccel", "v4l2", "-rtsp_transport", "tcp", "-i", input_path,
                "-vf", "fps=" \o ToString(fps) \o ",format=rgb24",
                template>>
         ELSE <<FFMPEG_PATH, "-hwaccel", "v4l2", "-i", input_path,
                "-vf", "fps=" \o ToString(fps) \o ",format=rgb24",
                template>>
    ELSE IF hw_accel = "rga"
    THEN IF startswith(input_path, "rtsp://")
         THEN <<FFMPEG_PATH, "-rtsp_transport", "tcp", "-i", input_path,
                "-vf", "fps=" \o ToString(fps) \o ",format=rgb24,rga=format=rgb24",
                template>>
         ELSE <<FFMPEG_PATH, "-i", input_path,
                "-vf", "fps=" \o ToString(fps) \o ",format=rgb24,rga=format=rgb24",
                template>>
    ELSE IF startswith(input_path, "rtsp://")
         THEN <<FFMPEG_PATH, "-rtsp_transport", "tcp", "-i", input_path,
                "-vf", "fps=" \o ToString(fps) \o ",format=rgb24",
                template>>
         ELSE <<FFMPEG_PATH, "-i", input_path,
                "-vf", "fps=" \o ToString(fps) \o ",format=rgb24",
                template>>

\* No command was built.
NotBuilt ==
    [input_path_str |-> "", hw_accel |-> "-", fps |-> 0, camera_id |-> "-",
     ffmpeg_cmd |-> <<>>, fallback_cmd |-> <<>>, command |-> <<>>,
     entry |-> "-", again |-> FALSE, entry_before |-> "-", cmd_before |-> <<>>]

\* The inputs of a run of the builder.
SameInputs(b, input_path_str, hw_accel, fps, camera_id) ==
    /\ b.input_path_str = input_path_str
    /\ b.hw_accel = hw_accel
    /\ b.fps = fps
    /\ b.camera_id = camera_id
    /\ b.ffmpeg_cmd # <<>>

\* ------------------------------------------------------------ start

\* A variant of the idempotency check: it looks for the status "started",
\* the word of the response, which no task dict holds, and does not poll.
AlreadyRunningByAnswer(c) ==
    /\ c \in DOMAIN decode_tasks
    /\ decode_tasks[c].status = "started"

\* A variant of the request check: a call is refused unless it has a url.
InvalidRequestWithoutUrl(file, url) == ~url

\* A variant of the request check: the check is left out.
InvalidRequestNever(file, url) == FALSE

\* routes.py:119-120  the request check of decode_video
InvalidRequest(file, url) == ~file /\ ~url

\* routes.py:124-138  the idempotency check of decode_video, under the lock
AlreadyRunning(c) ==
    /\ c \in DOMAIN decode_tasks
    /\ \/ is_process_running(decode_tasks[c].process)
       \/ decode_tasks[c].status = "running"

\* A variant of the entry of a failed start: the handle of the last process
\* launched is left in the entry.
ErrorTaskKeepsHandle(c, e) == Task(run.proc, c, "error", e)

\* routes.py:280-286, 295-301, 324-330  the entry of a failed start
ErrorTask(c, e) == Task(0, c, "error", e)

\* A variant of the entry of a successful start: the last_error of the
\* entry it replaces is kept.
RunningTaskKeepsError(rn) ==
    Task(rn.proc, rn.cam, "running",
         IF rn.cam \in DOMAIN decode_tasks
         THEN decode_tasks[rn.cam].last_error ELSE NoError)

\* A variant of the entry of a successful start: the handle is the process
\* of the first command, also after the software command replaced it.
RunningTaskOfFirst(rn) == Task(rn.first, rn.cam, "running", NoError)

\* A variant of the entry of a successful start: no handle is stored.
RunningTaskWithoutHandle(rn) == Task(0, rn.cam, "running", NoError)

\* routes.py:305-311  the entry of a start whose process passed the probe
RunningTask(rn) == Task(rn.proc, rn.cam, "running", NoError)

\* The running handler returns or raises: the event loop is free again, and
\* what the call answered is the latest event on camera c.
Return(c, answer) ==
    /\ run' = Idle
    /\ last' = Event(c, answer)

\* routes.py:321-331  except Exception: the entry is written and the call
\* fails with status 500
StartRaise(c) ==
    /\ decode_tasks' = Put(decode_tasks, c, ErrorTask(c, ErrFailedToStart))
    /\ Return(c, "start_failed")

\* routes.py:273-287, 290-302 then 321-331  every attempt exited within the
\* grace period: the entry is written with msg, the HTTPException raised is
\* caught by `except Exception`, which writes the entry again
StartExited(c, msg) ==
    /\ \E str_has_detail \in BOOLEAN :
          decode_tasks' =
             Put(Put(decode_tasks, c, ErrorTask(c, msg)),
                 c, ErrorTask(c, ErrFailedToStartOf(msg, str_has_detail)))
    /\ Return(c, "start_failed")

\* routes.py:304-319  the task is registered as running, "started" returned
StartCommit(c) ==
    /\ decode_tasks' = Put(decode_tasks, c, RunningTask(run))
    /\ run' = Idle
    /\ last' = Started(run)

\* routes.py:109-148  POST /decode/ up to the input: the request check, the
\* idempotency check under the lock, and for a file payload the await of
\* file.read(), which hands the event loop to the other handlers
StartBegin(c, file, url) ==
    /\ run.op = "idle"
    /\ task_lock = "free"
    /\ IF InvalidRequest(file, url)
       THEN /\ last' = [Event(c, "start_invalid") EXCEPT !.given = Given(file, url)]
            /\ UNCHANGED <<run, awaiting>>
       ELSE IF AlreadyRunning(c)
       THEN /\ last' = Repeated(c, last)
            /\ UNCHANGED <<run, awaiting>>
       ELSE IF file
       THEN /\ Total(awaiting, Cams) < MaxAwaiting
            /\ awaiting' = [awaiting EXCEPT ![c] = @ + 1]
            /\ last' = [Event(c, "pending") EXCEPT !.given = Given(file, url)]
            /\ UNCHANGED run
       ELSE /\ run' = [Idle EXCEPT !.op = "start", !.cam = c, !.pc = "launch"]
            /\ last' = [Event(c, "pending") EXCEPT !.given = Given(file, url)]
            /\ UNCHANGED awaiting
    /\ UNCHANGED <<decode_tasks, task_lock, procs, frames>>
    /\ UNCHANGED <<resolved, built, at>>

\* routes.py:141-145  file.read() is done: the event loop resumes the start
\* call for camera c when it runs no other handler
StartResume(c) ==
    /\ run.op = "idle"
    /\ awaiting[c] > 0
    /\ awaiting' = [awaiting EXCEPT ![c] = @ - 1]
    /\ run' = [Idle EXCEPT !.op = "start", !.cam = c, !.pc = "launch"]
    /\ last' = Event(c, "pending")
    /\ UNCHANGED <<decode_tasks, task_lock, procs, frames>>
    /\ UNCHANGED <<resolved, built, at>>

\* routes.py:150-240  the camera directory is cleared, the backend resolved
\* from the force_format of the call to hw_accel (or the resolver raised),
\* the command launched; then the handler sleeps 2 seconds
StartLaunch(force_format, hw_accel, popen_ok) ==
    /\ run.op = "start"
    /\ run.pc = "launch"
    /\ task_lock = "free"
    /\ hw_accel \in Resolutions(force_format)
    /\ LET c == run.cam
           pid == NewPid(procs)
       IN /\ frames' = cleanup_camera_frames(frames, c)
          /\ IF hw_accel # "raise" /\ popen_ok /\ CanSpawn(procs)
             THEN /\ run' = [run EXCEPT !.pc = "grace",
                                        !.force_format = force_format,
                                        !.hw_accel = hw_accel,
                                        !.proc = pid, !.first = pid]
                  /\ procs' = [procs EXCEPT ![pid] = Proc(c, hw_accel)]
                  /\ UNCHANGED <<decode_tasks, last>>
             ELSE /\ StartRaise(c)
                  /\ procs' = Collect(procs, decode_tasks', run')
    /\ UNCHANGED <<task_lock, awaiting>>
    /\ UNCHANGED <<resolved, built, at>>

\* routes.py:243-319  after the first sleep: the process is polled; one that
\* runs is registered, one that exited is replaced by the software command
\* unless the backend was "none" already
StartProbe(popen_ok) ==
    /\ run.op = "start"
    /\ run.pc = "grace"
    /\ task_lock = "free"
    /\ LET c == run.cam
           pid == NewPid(procs)
       IN
       IF Alive(procs, run.proc)
       THEN /\ StartCommit(c)
            /\ procs' = Collect(procs, decode_tasks', run')
       ELSE IF run.hw_accel # "none"
       THEN IF popen_ok /\ CanSpawn(procs)
            THEN /\ run' = [run EXCEPT !.pc = "grace_fallback", !.proc = pid]
                 /\ procs' = [procs EXCEPT ![pid] = Proc(c, "none")]
                 /\ UNCHANGED <<decode_tasks, last>>
            ELSE /\ StartRaise(c)
                 /\ procs' = Collect(procs, decode_tasks', run')
       ELSE /\ StartExited(c, ErrSoftwareFailed)
            /\ procs' = Collect(procs, decode_tasks', run')
    /\ UNCHANGED <<task_lock, frames, awaiting>>
    /\ UNCHANGED <<resolved, built, at>>

\* routes.py:270-289, 304-319  after the second sleep: the software process
\* is polled
StartProbeFallback ==
    /\ run.op = "start"
    /\ run.pc = "grace_fallback"
    /\ task_lock = "free"
    /\ LET c == run.cam IN
       IF Alive(procs, run.proc)
       THEN StartCommit(c)
       ELSE StartExited(c, ErrBothFailed)
    /\ procs' = Collect(procs, decode_tasks', run')
    /\ UNCHANGED <<task_lock, frames, awaiting>>
    /\ UNCHANGED <<resolved, built, at>>

\* ------------------------------------------------------------ stop

\* A variant of terminate: SIGTERM goes to every decoder that runs.
TerminateEveryDecoder(ps, p) ==
    [q \in Pids |-> IF Alive(ps, q) THEN [ps[q] EXCEPT !.state = "terminating"]
                     ELSE ps[q]]

\* Popen.terminate(): SIGTERM is sent; whether and when the process exits is
\* the process's business
Terminate(ps, p) == [ps EXCEPT ![p].state = "terminating"]

\* Popen.kill(): SIGKILL cannot be caught or ignored
Kill(ps, p) == [ps EXCEPT ![p] = Exited(-9)]

\* A variant of the wait of POST /decode/stop/: TimeoutExpired is swallowed
\* and the process is not killed.
AfterWaitNoKill(ps, p) == ps

\* routes.py:353-356  proc.wait(timeout=5) returned, or raised
\* TimeoutExpired and the process is killed
AfterWait(ps, p) == IF Alive(ps, p) THEN Kill(ps, p) ELSE ps

\* routes.py:532-535  after time.sleep(1) a process that still runs is killed
AfterSleep(ps, p) == IF Alive(ps, p) THEN Kill(ps, p) ELSE ps

\* routes.py:333-352  POST /decode/stop/ up to proc.wait: a missing task is
\* answered with HTTP 404; a task with no handle, or with a process that
\* exited, is marked stopped and its frames are removed; a running process
\* is sent SIGTERM and waited for, the lock held
DecodeStopBegin(c) ==
    /\ run.op = "idle"
    /\ task_lock = "free"
    /\ IF c \notin DOMAIN decode_tasks
       THEN /\ last' = Event(c, "decode_stop_404")
            /\ UNCHANGED <<decode_tasks, task_lock, procs, frames, run>>
       ELSE LET proc == decode_tasks[c].process IN
            IF is_process_running(proc)
            THEN /\ procs' = Terminate(procs, proc)
                 /\ run' = [Idle EXCEPT !.op = "decode_stop", !.cam = c,
                                        !.pc = "wait", !.proc = proc]
                 /\ task_lock' = "held"
                 /\ last' = Event(c, "pending")
                 /\ UNCHANGED <<decode_tasks, frames>>
            ELSE /\ decode_tasks' = [decode_tasks EXCEPT ![c].status = "stopped"]
                 /\ frames' = cleanup_camera_frames(frames, c)
                 /\ last' = Event(c, "decode_stop_stopped")
                 /\ UNCHANGED <<task_lock, procs, run>>
    /\ UNCHANGED awaiting
    /\ UNCHANGED <<resolved, built, at>>

\* routes.py:353-361  after proc.wait: the task is marked stopped and the
\* frames are removed
DecodeStopWait ==
    /\ run.op = "decode_stop"
    /\ run.pc = "wait"
    /\ task_lock = "held"
    /\ LET c == run.cam IN
          /\ decode_tasks' = [decode_tasks EXCEPT ![c].status = "stopped"]
          /\ frames' = cleanup_camera_frames(frames, c)
          /\ Return(c, "decode_stop_stopped")
          /\ procs' = Collect(AfterWait(procs, run.proc), decode_tasks', run')
    /\ task_lock' = "free"
    /\ UNCHANGED awaiting
    /\ UNCHANGED <<resolved, built, at>>

\* routes.py:512-532, 540-548  POST /stop-decode/ up to time.sleep(1): a
\* missing task is reported as not_found; a task whose process does not run
\* is marked stopped; a running process is sent SIGTERM, the lock held
StopDecodeBegin(c) ==
    /\ run.op = "idle"
    /\ task_lock = "free"
    /\ IF c \notin DOMAIN decode_tasks
       THEN /\ last' = Event(c, "stop_decode_not_found")
            /\ UNCHANGED <<decode_tasks, task_lock, procs, run>>
       ELSE LET proc == decode_tasks[c].process IN
            IF is_process_running(proc)
            THEN /\ procs' = Terminate(procs, proc)
                 /\ run' = [Idle EXCEPT !.op = "stop_decode", !.cam = c,
                                        !.pc = "sleep", !.proc = proc]
                 /\ task_lock' = "held"
                 /\ last' = Event(c, "pending")
                 /\ UNCHANGED decode_tasks
            ELSE /\ decode_tasks' = [decode_tasks EXCEPT ![c].status = "stopped"]
                 /\ last' = Event(c, "stop_decode_stopped")
                 /\ UNCHANGED <<task_lock, procs, run>>
    /\ UNCHANGED <<frames, awaiting>>
    /\ UNCHANGED <<resolved, built, at>>

\* routes.py:533-548  after time.sleep(1): the task is marked stopped and
\* its handle cleared
StopDecodeWake ==
    /\ run.op = "stop_decode"
    /\ run.pc = "sleep"
    /\ task_lock = "held"
    /\ LET c == run.cam IN
          /\ decode_tasks' = [decode_tasks EXCEPT ![c].status = "stopped",
                                                  ![c].process = 0]
          /\ Return(c, "stop_decode_stopped")
          /\ procs' = Collect(AfterSleep(procs, run.proc), decode_tasks', run')
    /\ task_lock' = "free"
    /\ UNCHANGED <<frames, awaiting>>
    /\ UNCHANGED <<resolved, built, at>>

\* ------------------------------------------------------------ status

\* A variant of status reconciliation: an exit is a completion, whatever
\* the return code.
ReconciledIgnoresCode(task, return_code) == [task EXCEPT !.status = "completed"]

\* A variant of status reconciliation: the status is rewritten and no
\* last_error is stored.
ReconciledWithoutMessage(task, return_code) ==
    [task EXCEPT !.status = IF return_code = 0 THEN "completed" ELSE "error"]

\* routes.py:386-395  the task of a process that exited with return_code,
\* as status reconciliation rewrites it
Reconciled(task, return_code) ==
    IF return_code = 0
    THEN [task EXCEPT !.status = "completed"]
    ELSE [task EXCEPT !.status = "error", !.last_error = ErrExited(return_code)]

\* A variant of the status call: the task of a process that exited is
\* rewritten whatever its status.
StatusTaskOfAnyStatus(c) ==
    LET task == decode_tasks[c]
        proc == task.process
    IN IF proc # 0 /\ ~is_process_running(proc)
       THEN Reconciled(task, procs[proc].rc)
       ELSE task

\* routes.py:371-395  the task dict of camera c as a status call leaves it
StatusTask(c) ==
    LET task == decode_tasks[c]
        proc == task.process
    IN IF proc # 0 /\ ~is_process_running(proc) /\ task.status = "running"
       THEN Reconciled(task, procs[proc].rc)
       ELSE task

\* A variant of the answer: for a camera without an entry the frames of its
\* directory are counted.
StatusReplyOfDirectory(c) ==
    IF c \notin DOMAIN decode_tasks
    THEN [status |-> "not_started", frame_count |-> get_frame_count(c),
          last_error |-> NoError]
    ELSE [status |-> StatusTask(c).status,
          frame_count |-> get_frame_count(decode_tasks[c].output_folder),
          last_error |-> StatusTask(c).last_error]

\* routes.py:369, 375-380, 397-402  what a status call for camera c answers
StatusReply(c) ==
    IF c \notin DOMAIN decode_tasks
    THEN [status |-> "not_started", frame_count |-> 0, last_error |-> NoError]
    ELSE [status |-> StatusTask(c).status,
          frame_count |-> get_frame_count(decode_tasks[c].output_folder),
          last_error |-> StatusTask(c).last_error]

\* routes.py:363-402  GET /decode/status/
DecodeStatus(c) ==
    /\ run.op = "idle"
    /\ task_lock = "free"
    /\ decode_tasks' = IF c \in DOMAIN decode_tasks
                       THEN [decode_tasks EXCEPT ![c] = StatusTask(c)]
                       ELSE decode_tasks
    /\ last' = Event(c, "status")
    /\ UNCHANGED <<task_lock, procs, frames, run, awaiting>>
    /\ UNCHANGED <<resolved, built, at>>

\* ------------------------------------------------- cleanup, latest frame

\* routes.py:500  the age in seconds beyond which the latest frame is stale
StaleAfter == 300

\* Ages in seconds of the most recent frame file of a directory, as
\* get_latest_frame can find them: just written, at the threshold, beyond it.
FrameAges == {0, StaleAfter, StaleAfter + 1}

\* A variant of the sweep condition: every camera that does not run is
\* swept, also one whose entry is completed or in error.
OrphanedUnlessRunning(tasks, c) ==
    c \notin DOMAIN tasks \/ tasks[c].status # "running"

\* routes.py:50  the directory of camera c is swept
Orphaned(tasks, c) == c \notin DOMAIN tasks \/ tasks[c].status = "stopped"

\* routes.py:41-54  cleanup_orphaned_frames(): every directory under
\* OUTPUT_FOLDER is looked up in the registry, under the lock
cleanup_orphaned_frames(f, tasks) ==
    [c \in DOMAIN f |-> IF Orphaned(tasks, c) THEN 0 ELSE f[c]]

\* routes.py:455-460  POST /cleanup/ with camera_id = c
CleanupFrames(c) ==
    /\ run.op = "idle"
    /\ frames' = cleanup_camera_frames(frames, c)
    /\ last' = [Event(c, "cleaned") EXCEPT
                   !.cleared = {x \in Cams : frames[x] > 0 /\ frames'[x] = 0}]
    /\ UNCHANGED <<decode_tasks, task_lock, procs, run, awaiting>>
    /\ UNCHANGED <<resolved, built, at>>

\* routes.py:455-463  POST /cleanup/ with no camera_id
CleanupOrphans ==
    /\ run.op = "idle"
    /\ task_lock = "free"
    /\ frames' = cleanup_orphaned_frames(frames, decode_tasks)
    /\ last' = [Event("-", "swept") EXCEPT
                   !.cleared = {c \in Cams : frames[c] > 0 /\ frames'[c] = 0}]
    /\ UNCHANGED <<decode_tasks, task_lock, procs, run, awaiting>>
    /\ UNCHANGED <<resolved, built, at>>

\* A variant of the staleness test: a frame at the threshold is stale.
IsStaleAtThreshold(latest_age) == latest_age >= StaleAfter

\* routes.py:498-500  current_time - frame_mtime > 300
IsStale(latest_age) == latest_age > StaleAfter

\* routes.py:465-510  GET /latest-frame/ for camera c, where the most recent
\* frame file, if there is one, is latest_age seconds old
LatestFrame(c, latest_age) ==
    /\ run.op = "idle"
    /\ task_lock = "free"
    /\ IF c \notin DOMAIN decode_tasks
       THEN /\ last' = Event(c, "latest_frame_404")
            /\ UNCHANGED frames
       ELSE IF get_frame_count(decode_tasks[c].output_folder) = 0
       THEN /\ last' = Event(c, "latest_frame_none")
            /\ UNCHANGED frames
       ELSE IF IsStale(latest_age)
       THEN /\ frames' = cleanup_camera_frames(frames, c)
            /\ last' = Event(c, "latest_frame_stale")
       ELSE /\ last' = Event(c, "latest_frame_sent")
            /\ UNCHANGED frames
    /\ UNCHANGED <<decode_tasks, task_lock, procs, run, awaiting>>
    /\ UNCHANGED <<resolved, built, at>>

\* ------------------------------------------------------------ decoders

\* A decoder subprocess exits by itself (end of input, an error, or in
\* answer to SIGTERM).  What is left of it is its return code.  When the
\* task of the camera of the latest event holds this process, the exit is
\* the latest event on that camera.
ProcExit(p, rc) ==
    /\ Alive(procs, p)
    /\ procs' = Collect([procs EXCEPT ![p] = Exited(rc)], decode_tasks, run)
    /\ last' = IF last.cam \in DOMAIN decode_tasks
                    /\ decode_tasks[last.cam].process = p
                THEN Event(last.cam, "exit") ELSE last
    /\ UNCHANGED <<decode_tasks, task_lock, frames, run, awaiting>>
    /\ UNCHANGED <<resolved, built, at>>

\* A running decoder writes the next frame_%04d.jpg into its camera's
\* directory (the output template of its command).
WriteFrame(p) ==
    /\ Alive(procs, p)
    /\ frames[procs[p].cam] < MaxFrames
    /\ frames' = [frames EXCEPT ![procs[p].cam] = @ + 1]
    /\ UNCHANGED <<decode_tasks, task_lock, procs, run, awaiting, last>>
    /\ UNCHANGED <<resolved, built, at>>

\* ------------------------------------------------- statements and the lock

\* The paths through the handlers of routes.py, statement by statement: the
\* line of each statement and what it does.  "lock" enters a `with
\* task_lock:` block and "unlock" leaves it (at the line of the last
\* statement run in the block); "get" reads and "set" writes decode_tasks or
\* a field of one of its entries; "sleep" is time.sleep or Popen.wait,
\* "wait" the probes of get_best_hwaccel, "await" the await of file.read();
\* "exit" returns or raises out of the handler.

\* routes.py:119-120  decode_video: no file and no url
decode_video_invalid ==
    <<[line |-> 119, does |-> "test"], [line |-> 120, does |-> "exit"]>>

\* routes.py:123-131  decode_video: the process of the entry runs
decode_video_already_running ==
    <<[line |-> 123, does |-> "lock"], [line |-> 124, does |-> "get"],
      [line |-> 125, does |-> "get"], [line |-> 129, does |-> "get"],
      [line |-> 131, does |-> "unlock"], [line |-> 131, does |-> "exit"]>>

\* routes.py:123-138  decode_video: the status of the entry is "running"
decode_video_already_status ==
    <<[line |-> 123, does |-> "lock"], [line |-> 124, does |-> "get"],
      [line |-> 125, does |-> "get"], [line |-> 132, does |-> "get"],
      [line |-> 136, does |-> "get"], [line |-> 138, does |-> "unlock"],
      [line |-> 138, does |-> "exit"]>>

\* A variant of the path below: the entry is written with no lock taken.
decode_video_started_unlocked ==
    <<[line |-> 123, does |-> "lock"], [line |-> 124, does |-> "get"],
      [line |-> 125, does |-> "get"], [line |-> 132, does |-> "get"],
      [line |-> 132, does |-> "unlock"], [line |-> 145, does |-> "await"],
      [line |-> 157, does |-> "files"], [line |-> 174, does |-> "wait"],
      [line |-> 236, does |-> "popen"], [line |-> 240, does |-> "sleep"],
      [line |-> 243, does |-> "poll"], [line |-> 306, does |-> "set"],
      [line |-> 314, does |-> "exit"]>>

\* routes.py:123-314  decode_video: a file, the first process runs after the grace period
decode_video_started ==
    <<[line |-> 123, does |-> "lock"], [line |-> 124, does |-> "get"],
      [line |-> 125, does |-> "get"], [line |-> 132, does |-> "get"],
      [line |-> 132, does |-> "unlock"], [line |-> 145, does |-> "await"],
      [line |-> 157, does |-> "files"], [line |-> 174, does |-> "wait"],
      [line |-> 236, does |-> "popen"], [line |-> 240, does |-> "sleep"],
      [line |-> 243, does |-> "poll"], [line |-> 305, does |-> "lock"],
      [line |-> 306, does |-> "set"], [line |-> 311, does |-> "unlock"],
      [line |-> 314, does |-> "exit"]>>

\* routes.py:123-314  decode_video: a url, the first process exited, the software one runs
decode_video_fallback_started ==
    <<[line |-> 123, does |-> "lock"], [line |-> 124, does |-> "get"],
      [line |-> 125, does |-> "get"], [line |-> 132, does |-> "get"],
      [line |-> 132, does |-> "unlock"], [line |-> 146, does |-> "test"],
      [line |-> 157, does |-> "files"], [line |-> 174, does |-> "wait"],
      [line |-> 236, does |-> "popen"], [line |-> 240, does |-> "sleep"],
      [line |-> 243, does |-> "poll"], [line |-> 268, does |-> "popen"],
      [line |-> 271, does |-> "sleep"], [line |-> 273, does |-> "poll"],
      [line |-> 305, does |-> "lock"], [line |-> 306, does |-> "set"],
      [line |-> 311, does |-> "unlock"], [line |-> 314, does |-> "exit"]>>

\* routes.py:123-331  decode_video: a url, both processes exited
decode_video_both_failed ==
    <<[line |-> 123, does |-> "lock"], [line |-> 124, does |-> "get"],
      [line |-> 125, does |-> "get"], [line |-> 132, does |-> "get"],
      [line |-> 132, does |-> "unlock"], [line |-> 146, does |-> "test"],
      [line |-> 157, does |-> "files"], [line |-> 174, does |-> "wait"],
      [line |-> 236, does |-> "popen"], [line |-> 240, does |-> "sleep"],
      [line |-> 243, does |-> "poll"], [line |-> 268, does |-> "popen"],
      [line |-> 271, does |-> "sleep"], [line |-> 273, does |-> "poll"],
      [line |-> 280, does |-> "lock"], [line |-> 281, does |-> "set"],
      [line |-> 286, does |-> "unlock"], [line |-> 287, does |-> "raise"],
      [line |-> 321, does |-> "except"], [line |-> 324, does |-> "lock"],
      [line |-> 325, does |-> "set"], [line |-> 330, does |-> "unlock"],
      [line |-> 331, does |-> "exit"]>>

\* routes.py:123-331  decode_video: a file, backend "none", the process exited
decode_video_software_failed ==
    <<[line |-> 123, does |-> "lock"], [line |-> 124, does |-> "get"],
      [line |-> 125, does |-> "get"], [line |-> 132, does |-> "get"],
      [line |-> 132, does |-> "unlock"], [line |-> 145, does |-> "await"],
      [line |-> 157, does |-> "files"], [line |-> 174, does |-> "wait"],
      [line |-> 236, does |-> "popen"], [line |-> 240, does |-> "sleep"],
      [line |-> 243, does |-> "poll"], [line |-> 295, does |-> "lock"],
      [line |-> 296, does |-> "set"], [line |-> 301, does |-> "unlock"],
      [line |-> 302, does |-> "raise"], [line |-> 321, does |-> "except"],
      [line |-> 324, does |-> "lock"], [line |-> 325, does |-> "set"],
      [line |-> 330, does |-> "unlock"], [line |-> 331, does |-> "exit"]>>

\* routes.py:123-331  decode_video: a url, Popen raised
decode_video_popen_raised ==
    <<[line |-> 123, does |-> "lock"], [line |-> 124, does |-> "get"],
      [line |-> 125, does |-> "get"], [line |-> 132, does |-> "get"],
      [line |-> 132, does |-> "unlock"], [line |-> 146, does |-> "test"],
      [line |-> 157, does |-> "files"], [line |-> 174, does |-> "wait"],
      [line |-> 236, does |-> "popen"], [line |-> 321, does |-> "except"],
      [line |-> 324, does |-> "lock"], [line |-> 325, does |-> "set"],
      [line |-> 330, does |-> "unlock"], [line |-> 331, does |-> "exit"]>>

\* routes.py:336-339  stop_decode (/decode/stop/): no entry
stop_decode_missing ==
    <<[line |-> 336, does |-> "lock"], [line |-> 337, does |-> "get"],
      [line |-> 339, does |-> "unlock"], [line |-> 339, does |-> "exit"]>>

\* routes.py:336-348  stop_decode (/decode/stop/): an entry with no process
stop_decode_no_handle ==
    <<[line |-> 336, does |-> "lock"], [line |-> 337, does |-> "get"],
      [line |-> 341, does |-> "get"], [line |-> 344, does |-> "set"],
      [line |-> 347, does |-> "files"], [line |-> 348, does |-> "unlock"],
      [line |-> 348, does |-> "exit"]>>

\* routes.py:336-361  stop_decode (/decode/stop/): the process runs, wait timed out
stop_decode_waited ==
    <<[line |-> 336, does |-> "lock"], [line |-> 337, does |-> "get"],
      [line |-> 341, does |-> "get"], [line |-> 351, does |-> "poll"],
      [line |-> 352, does |-> "signal"], [line |-> 354, does |-> "sleep"],
      [line |-> 356, does |-> "signal"], [line |-> 357, does |-> "set"],
      [line |-> 360, does |-> "files"], [line |-> 361, does |-> "unlock"],
      [line |-> 361, does |-> "exit"]>>

\* routes.py:336-361  stop_decode (/decode/stop/): the process exited before
stop_decode_exited ==
    <<[line |-> 336, does |-> "lock"], [line |-> 337, does |-> "get"],
      [line |-> 341, does |-> "get"], [line |-> 351, does |-> "poll"],
      [line |-> 357, does |-> "set"], [line |-> 360, does |-> "files"],
      [line |-> 361, does |-> "unlock"], [line |-> 361, does |-> "exit"]>>

\* routes.py:366-369  decode_status: no entry
decode_status_not_started ==
    <<[line |-> 366, does |-> "lock"], [line |-> 367, does |-> "get"],
      [line |-> 369, does |-> "unlock"], [line |-> 369, does |-> "exit"]>>

\* routes.py:366-380  decode_status: an entry with no process
decode_status_no_handle ==
    <<[line |-> 366, does |-> "lock"], [line |-> 367, does |-> "get"],
      [line |-> 371, does |-> "get"], [line |-> 374, does |-> "get"],
      [line |-> 377, does |-> "get"], [line |-> 379, does |-> "get"],
      [line |-> 380, does |-> "unlock"], [line |-> 380, does |-> "exit"]>>

\* routes.py:366-402  decode_status: the process of a running entry exited with code 0
decode_status_completed ==
    <<[line |-> 366, does |-> "lock"], [line |-> 367, does |-> "get"],
      [line |-> 371, does |-> "get"], [line |-> 383, does |-> "poll"],
      [line |-> 384, does |-> "get"], [line |-> 387, does |-> "get"],
      [line |-> 388, does |-> "poll"], [line |-> 390, does |-> "set"],
      [line |-> 399, does |-> "get"], [line |-> 401, does |-> "get"],
      [line |-> 402, does |-> "unlock"], [line |-> 402, does |-> "exit"]>>

\* routes.py:366-402  decode_status: the process of a running entry exited with another code
decode_status_error ==
    <<[line |-> 366, does |-> "lock"], [line |-> 367, does |-> "get"],
      [line |-> 371, does |-> "get"], [line |-> 383, does |-> "poll"],
      [line |-> 384, does |-> "get"], [line |-> 387, does |-> "get"],
      [line |-> 388, does |-> "poll"], [line |-> 393, does |-> "set"],
      [line |-> 394, does |-> "set"], [line |-> 399, does |-> "get"],
      [line |-> 401, does |-> "get"], [line |-> 402, does |-> "unlock"],
      [line |-> 402, does |-> "exit"]>>

\* routes.py:366-402  decode_status: the process runs, or the entry is not "running"
decode_status_running ==
    <<[line |-> 366, does |-> "lock"], [line |-> 367, does |-> "get"],
      [line |-> 371, does |-> "get"], [line |-> 383, does |-> "poll"],
      [line |-> 384, does |-> "get"], [line |-> 387, does |-> "get"],
      [line |-> 399, does |-> "get"], [line |-> 401, does |-> "get"],
      [line |-> 402, does |-> "unlock"], [line |-> 402, does |-> "exit"]>>

\* routes.py:49-54  cleanup_orphaned_frames: a directory that is swept
cleanup_orphaned_frames_swept ==
    <<[line |-> 49, does |-> "lock"], [line |-> 50, does |-> "get"],
      [line |-> 52, does |-> "files"], [line |-> 52, does |-> "unlock"],
      [line |-> 54, does |-> "exit"]>>

\* routes.py:49-54  cleanup_orphaned_frames: a directory that is kept
cleanup_orphaned_frames_kept ==
    <<[line |-> 49, does |-> "lock"], [line |-> 50, does |-> "get"],
      [line |-> 50, does |-> "unlock"], [line |-> 54, does |-> "exit"]>>

\* routes.py:469-472  get_latest_frame: no entry
get_latest_frame_missing ==
    <<[line |-> 469, does |-> "lock"], [line |-> 470, does |-> "get"],
      [line |-> 472, does |-> "unlock"], [line |-> 472, does |-> "exit"]>>

\* routes.py:469-482  get_latest_frame: no frames, an entry with a last_error
get_latest_frame_none ==
    <<[line |-> 469, does |-> "lock"], [line |-> 470, does |-> "get"],
      [line |-> 474, does |-> "get"], [line |-> 481, does |-> "get"],
      [line |-> 482, does |-> "get"], [line |-> 482, does |-> "unlock"],
      [line |-> 482, does |-> "exit"]>>

\* routes.py:469-502  get_latest_frame: a stale frame
get_latest_frame_stale ==
    <<[line |-> 469, does |-> "lock"], [line |-> 470, does |-> "get"],
      [line |-> 474, does |-> "get"], [line |-> 501, does |-> "files"],
      [line |-> 502, does |-> "unlock"], [line |-> 502, does |-> "exit"]>>

\* routes.py:469-504  get_latest_frame: a frame is sent
get_latest_frame_sent ==
    <<[line |-> 469, does |-> "lock"], [line |-> 470, does |-> "get"],
      [line |-> 474, does |-> "get"], [line |-> 504, does |-> "unlock"],
      [line |-> 504, does |-> "exit"]>>

\* routes.py:517-524  stop_decode (/stop-decode/): no entry
stop_decode2_not_found ==
    <<[line |-> 517, does |-> "lock"], [line |-> 518, does |-> "get"],
      [line |-> 524, does |-> "unlock"], [line |-> 524, does |-> "exit"]>>

\* routes.py:517-548  stop_decode (/stop-decode/): the process runs, and still after the sleep
stop_decode2_slept ==
    <<[line |-> 517, does |-> "lock"], [line |-> 518, does |-> "get"],
      [line |-> 526, does |-> "get"], [line |-> 527, does |-> "poll"],
      [line |-> 529, does |-> "signal"], [line |-> 532, does |-> "sleep"],
      [line |-> 533, does |-> "poll"], [line |-> 535, does |-> "signal"],
      [line |-> 537, does |-> "set"], [line |-> 538, does |-> "set"],
      [line |-> 548, does |-> "unlock"], [line |-> 548, does |-> "exit"]>>

\* routes.py:517-548  stop_decode (/stop-decode/): the process does not run
stop_decode2_not_running ==
    <<[line |-> 517, does |-> "lock"], [line |-> 518, does |-> "get"],
      [line |-> 526, does |-> "get"], [line |-> 527, does |-> "poll"],
      [line |-> 542, does |-> "set"], [line |-> 548, does |-> "unlock"],
      [line |-> 548, does |-> "exit"]>>

\* The paths of the handlers.
HandlerPaths ==
    {decode_video_invalid, decode_video_already_running, decode_video_already_status,
     decode_video_started, decode_video_fallback_started, decode_video_both_failed,
     decode_video_software_failed, decode_video_popen_raised, stop_decode_missing,
     stop_decode_no_handle, stop_decode_waited, stop_decode_exited,
     decode_status_not_started, decode_status_no_handle, decode_status_completed,
     decode_status_error, decode_status_running, cleanup_orphaned_frames_swept,
     cleanup_orphaned_frames_kept, get_latest_frame_missing, get_latest_frame_none,
     get_latest_frame_stale, get_latest_frame_sent, stop_decode2_not_found,
     stop_decode2_slept, stop_decode2_not_running}

\* The event loop runs no statement and no start call is suspended.
NoStatement == [path |-> <<>>, i |-> 0, parked |-> <<>>]

\* The statement the event loop ran last.
Statement == at.path[at.i]

\* All of s but its element k.
Without(s, k) == SubSeq(s, 1, k - 1) \o SubSeq(s, k + 1, Len(s))

\* The event loop calls a handler, which will take the path `path`.
Enter(path) ==
    /\ at.path = <<>>
    /\ at' = [at EXCEPT !.path = path, !.i = 0]
    /\ UNCHANGED <<decode_tasks, task_lock, procs, frames, run, awaiting, last,
                   resolved, built>>

\* The handler on the event loop runs its next statement.  threading.Lock is
\* taken when it is free; the await of file.read() suspends the call and
\* frees the event loop.
RunStatement ==
    /\ at.path # <<>>
    /\ at.i < Len(at.path)
    /\ LET st == at.path[at.i + 1] IN
       IF st.does = "lock"
       THEN /\ task_lock = "free"
            /\ task_lock' = "held"
            /\ at' = [at EXCEPT !.i = @ + 1]
       ELSE IF st.does = "unlock"
       THEN /\ task_lock' = "free"
            /\ at' = [at EXCEPT !.i = @ + 1]
       ELSE IF st.does = "await"
       THEN /\ Len(at.parked) < MaxAwaiting
            /\ at' = [path |-> <<>>, i |-> 0,
                      parked |-> Append(at.parked, [path |-> at.path, i |-> at.i + 1])]
            /\ UNCHANGED task_lock
       ELSE IF st.does = "exit"
       THEN /\ at' = [at EXCEPT !.path = <<>>, !.i = 0]
            /\ UNCHANGED task_lock
       ELSE /\ at' = [at EXCEPT !.i = @ + 1]
            /\ UNCHANGED task_lock
    /\ UNCHANGED <<decode_tasks, procs, frames, run, awaiting, last, resolved, built>>

\* routes.py:145  file.read() is done: the event loop resumes the suspended
\* start call k when it runs no handler.
ResumeStatement(k) ==
    /\ at.path = <<>>
    /\ k \in 1..Len(at.parked)
    /\ at' = [path |-> at.parked[k].path, i |-> at.parked[k].i,
              parked |-> Without(at.parked, k)]
    /\ UNCHANGED <<decode_tasks, task_lock, procs, frames, run, awaiting, last,
                   resolved, built>>

\* ------------------------------------------------------------ specification

\* routes.py:26-27: an empty registry, a free lock.  The registry does not
\* survive a restart of the service, the frame files do: a directory is
\* empty or holds the frames of an earlier run.
Init ==
    /\ decode_tasks = [c \in {} |-> Task(0, c, "stopped", NoError)]
    /\ task_lock = "free"
    /\ procs = [p \in Pids |-> Free]
    /\ frames \in [Cams -> {0, MaxFrames}]
    /\ run = Idle
    /\ awaiting = [c \in Cams |-> 0]
    /\ last = Event("-", "none")
    /\ resolved = NotResolved
    /\ built = NotBuilt
    /\ at = NoStatement

\* One step of the service and its decoders when the callers use the camera
\* identifiers CS.
NextOn(CS) ==
    \/ \E c \in CS, file \in BOOLEAN, url \in BOOLEAN : StartBegin(c, file, url)
    \/ \E c \in CS : StartResume(c)
    \/ \E ff \in ForceFormats, hw_accel \in Accels \cup {"raise"}, popen_ok \in BOOLEAN :
          StartLaunch(ff, hw_accel, popen_ok)
    \/ \E popen_ok \in BOOLEAN : StartProbe(popen_ok)
    \/ StartProbeFallback
    \/ \E c \in CS : DecodeStopBegin(c)
    \/ DecodeStopWait
    \/ \E c \in CS : StopDecodeBegin(c)
    \/ StopDecodeWake
    \/ \E c \in CS : DecodeStatus(c)
    \/ \E c \in CS : CleanupFrames(c)
    \/ CleanupOrphans
    \/ \E c \in CS, latest_age \in FrameAges : LatestFrame(c, latest_age)
    \/ \E p \in Pids, rc \in ExitCodes : ProcExit(p, rc)
    \/ \E p \in Pids : WriteFrame(p)

Next == NextOn(Called)

Spec == Init /\ [][Next]_vars

\* get_best_hwaccel is called on its own (GET /debug/,
\* decode_video2frames_in_jpeg) with the priority list options, the argument
\* force_format and the probe outcomes probe.
ResolverCall(options, force_format, probe) ==
    /\ resolved' = [options |-> options, force_format |-> force_format,
                    probe |-> probe,
                    probed |-> get_best_hwaccel(options, force_format, probe).probed,
                    result |-> get_best_hwaccel(options, force_format, probe).result]
    /\ UNCHANGED <<decode_tasks, task_lock, procs, frames, run, awaiting, last, built, at>>

ResolverNext ==
    \E options \in OptionLists, force_format \in ForceFormats, probe \in ProbeTables :
        ResolverCall(options, force_format, probe)

\* The resolver on its own: every call of it, from the state the service
\* starts in with empty directories.
ResolverInit == Init /\ frames = [c \in Cams |-> 0]

ResolverSpec == ResolverInit /\ [][ResolverNext]_vars

\* routes.py:150-151, 162, 181-233, 253-265 and ffmpeg_utils.py:146-230  the
\* command-building statements of decode_video and of
\* decode_video2frames_in_jpeg on their own, for camera c, the input
\* input_path_str, the resolved backend hw_accel and the argument fps: the
\* argument lists they make.  `entry` is the status of the entry of camera c when they run;
\* `again` tells that the run before this one had the same inputs, and then
\* `entry_before` and `cmd_before` are the entry and the command of that run.
StartBuild(c, input_path_str, hw_accel, fps) ==
    /\ run.op = "idle"
    /\ built' =
          [input_path_str |-> input_path_str, hw_accel |-> hw_accel,
           fps |-> fps, camera_id |-> c,
           ffmpeg_cmd |-> ffmpeg_cmd(input_path_str, hw_accel, fps, output_folder(c)),
           fallback_cmd |-> fallback_cmd(input_path_str, fps, output_folder(c)),
           command |-> command(input_path_str, hw_accel, fps, output_template(c)),
           entry |-> IF c \in DOMAIN decode_tasks
                     THEN decode_tasks[c].status ELSE "not_started",
           again |-> SameInputs(built, input_path_str, hw_accel, fps, c),
           entry_before |->
               IF SameInputs(built, input_path_str, hw_accel, fps, c)
               THEN built.entry ELSE "-",
           cmd_before |->
               IF SameInputs(built, input_path_str, hw_accel, fps, c)
               THEN built.ffmpeg_cmd ELSE <<>>]
    /\ UNCHANGED <<decode_tasks, task_lock, procs, frames, run, awaiting, last, resolved, at>>

\* The builder on its inputs, while one camera is started by url with the
\* software backend, polled and cleaned, and its decoder writes and exits.
BuilderNext ==
    \/ \E c \in Called, input_path_str \in Sources, hw_accel \in Accels, fps \in FpsValues :
          StartBuild(c, input_path_str, hw_accel, fps)
    \/ \E c \in Called : StartBegin(c, FALSE, TRUE)
    \/ StartLaunch("none", "none", TRUE)
    \/ StartProbe(TRUE)
    \/ \E c \in Called : DecodeStatus(c)
    \/ \E p \in Pids, rc \in ExitCodes : ProcExit(p, rc)
    \/ \E p \in Pids : WriteFrame(p)

BuilderSpec == ResolverInit /\ [][BuilderNext]_vars

\* The handlers statement by statement, on one event loop.
StatementNext ==
    \/ \E path \in HandlerPaths : Enter(path)
    \/ RunStatement
    \/ \E k \in 1..MaxAwaiting : ResumeStatement(k)

StatementSpec == ResolverInit /\ [][StatementNext]_vars

\* The service when the callers use both camera identifiers, every start
\* call has a url and force_format "none", and no frame is requested: the
\* calls that write and clear entries and directories, on two cameras.
TwoCamNext ==
    \/ \E c \in Cams : StartBegin(c, FALSE, TRUE)
    \/ \E popen_ok \in BOOLEAN : StartLaunch("none", "none", popen_ok)
    \/ \E popen_ok \in BOOLEAN : StartProbe(popen_ok)
    \/ \E c \in Cams : DecodeStopBegin(c)
    \/ DecodeStopWait
    \/ \E c \in Cams : StopDecodeBegin(c)
    \/ StopDecodeWake
    \/ \E c \in Cams : DecodeStatus(c)
    \/ \E c \in Cams : CleanupFrames(c)
    \/ CleanupOrphans
    \/ \E p \in Pids, rc \in ExitCodes : ProcExit(p, rc)
    \/ \E p \in Pids : WriteFrame(p)

TwoCamSpec == Init /\ [][TwoCamNext]_vars

\* The five operations that take a camera_id, called for both cameras
\* (starts with a url and the software backend), and the decoders.
PerCameraNext ==
    \/ \E c \in Cams : StartBegin(c, FALSE, TRUE)
    \/ \E popen_ok \in BOOLEAN : StartLaunch("none", "none", popen_ok)
    \/ \E popen_ok \in BOOLEAN : StartProbe(popen_ok)
    \/ \E c \in Cams : DecodeStopBegin(c)
    \/ DecodeStopWait
    \/ \E c \in Cams : StopDecodeBegin(c)
    \/ StopDecodeWake
    \/ \E c \in Cams : DecodeStatus(c)
    \/ \E c \in Cams : CleanupFrames(c)
    \/ \E c \in Cams, latest_age \in FrameAges : LatestFrame(c, latest_age)
    \/ \E p \in Pids, rc \in ExitCodes : ProcExit(p, rc)
    \/ \E p \in Pids : WriteFrame(p)

PerCameraSpec == Init /\ [][PerCameraNext]_vars

\* ------------------------------------------------------------ properties

\* The filters of the value of -vf: the parts of the string between commas.
RECURSIVE Filters(_)
Filters(vf) ==
    IF vf = "" THEN <<"">>
    ELSE IF Head(vf) = "," THEN <<"">> \o Filters(Tail(vf))
    ELSE LET rest == Filters(Tail(vf))
         IN <<Head(vf) \o Head(rest)>> \o Tail(rest)

\* The positions of the argument arg in the command cmd.
Positions(cmd, arg) == {i \in 1..Len(cmd) : cmd[i] = arg}

\* The decoder subprocesses that run and write to the directory of camera c.
LiveDecoders(c) == {p \in Pids : Alive(procs, p) /\ procs[p].cam = c}

\* This step is a start call for camera c that has a file or a url.
StartCalled(c) ==
    \E file \in BOOLEAN, url \in BOOLEAN : (file \/ url) /\ StartBegin(c, file, url)

\* This step is the return of a start call for camera c with the answer ev.
StartReturned(c, ev) ==
    /\ run.op = "start"
    /\ run.cam = c
    /\ run' = Idle
    /\ last'.ev = ev

\* This step is the return of a stop call for camera c that found a task,
\* through POST /decode/stop/ or POST /stop-decode/.
StopReturned(c) ==
    \/ DecodeStopBegin(c) /\ last'.ev = "decode_stop_stopped"
    \/ DecodeStopWait /\ run.cam = c
    \/ StopDecodeBegin(c) /\ last'.ev = "stop_decode_stopped"
    \/ StopDecodeWake /\ run.cam = c

\* C1: when the latest event on a camera is a start call that answered
\* "started" or "already_running" (no stop, no status call and no exit of the
\* task's decoder since), the next start call for that camera answers
\* "already_running" and launches nothing: the subprocesses, the running
\* handler and the suspended calls are the same before and after it.
C1_SecondStartAlreadyRunning ==
    [][\A c \in Cams :
          (last.cam = c /\ last.ev \in {"started", "already_running"}
             /\ StartCalled(c))
          => /\ last'.ev = "already_running"
             /\ last'.cam = c
             /\ procs' = procs
             /\ run' = run
             /\ awaiting' = awaiting]_vars

\* C1 witness: a start call answered "already_running" right after a start
\* call answered "started", and the one decoder of the camera still runs.
C1_Witness ==
    /\ last.ev = "already_running"
    /\ last.after = "started"
    /\ is_process_running(decode_tasks[last.cam].process)
    /\ Cardinality(LiveDecoders(last.cam)) = 1

\* C2: in every reachable state at most one live decoder subprocess writes
\* to the directory of a camera, also when start calls for it overlap.
C2_OneLiveDecoderPerCamera ==
    \A c \in Cams : Cardinality(LiveDecoders(c)) <= 1

\* C3: when a start call returns "started", the registry holds the entry of
\* the camera with status "running", last_error none, and as handle the
\* process the handler polled and found alive, launched for this camera.
C3_StartedEntry ==
    [][\A c \in Cams :
          StartReturned(c, "started")
          => /\ c \in DOMAIN decode_tasks'
             /\ decode_tasks'[c].status = "running"
             /\ decode_tasks'[c].last_error = NoError
             /\ decode_tasks'[c].output_folder = c
             /\ decode_tasks'[c].process = run.proc
             /\ run.proc # 0
             /\ Alive(procs, run.proc)
             /\ procs[run.proc].cam = c]_vars

\* C3 witness: a start call answered "started" and the registered process
\* runs.
C3_Witness ==
    /\ last.ev = "started"
    /\ decode_tasks[last.cam].status = "running"
    /\ decode_tasks[last.cam].last_error = NoError
    /\ is_process_running(decode_tasks[last.cam].process)

\* C4: when a start call fails because every launch exited within the grace
\* period or launching raised, the registry holds the entry of the camera
\* with status "error", a last_error that is not none, and no handle.
C4_FailedStartEntry ==
    [][\A c \in Cams :
          StartReturned(c, "start_failed")
          => /\ c \in DOMAIN decode_tasks'
             /\ decode_tasks'[c].status = "error"
             /\ decode_tasks'[c].last_error # NoError
             /\ decode_tasks'[c].process = 0]_vars

\* C4 witness: a start call failed and left the error entry.
C4_Witness ==
    /\ last.ev = "start_failed"
    /\ decode_tasks[last.cam].status = "error"
    /\ decode_tasks[last.cam].last_error = ErrFailedToStart
    /\ decode_tasks[last.cam].process = 0

\* C5: a status call on an entry with status "running" whose process has
\* exited stores "completed" for exit code 0 and "error" with a last_error
\* naming the exit code otherwise; and after any status call a second one
\* would change nothing and answer the same status and last_error.
C5_StatusReconciles ==
    [][\A c \in DOMAIN decode_tasks :
          DecodeStatus(c)
          => LET task == decode_tasks[c]
                 proc == task.process
             IN /\ (task.status = "running" /\ proc # 0 /\ ~Alive(procs, proc))
                   => IF procs[proc].rc = 0
                      THEN decode_tasks'[c] = [task EXCEPT !.status = "completed"]
                      ELSE decode_tasks'[c] =
                             [task EXCEPT !.status = "error",
                                          !.last_error = ErrExited(procs[proc].rc)]
                /\ StatusTask(c)' = decode_tasks'[c]
                /\ StatusReply(c)'.status = StatusReply(c).status
                /\ StatusReply(c)'.last_error = StatusReply(c).last_error]_vars

\* C5 witness: a status call found the decoder exited with a nonzero code
\* and stored the error.
C5_Witness ==
    /\ last.ev = "status"
    /\ last.cam \in DOMAIN decode_tasks
    /\ decode_tasks[last.cam].status = "error"
    /\ decode_tasks[last.cam].last_error = ErrExited(1)
    /\ decode_tasks[last.cam].process # 0

\* C6: when a stop call on a camera with an entry returns, through either
\* stop operation, the entry has no handle and status "stopped" and the
\* camera directory holds no frame.
C6_StopClearsAll ==
    [][\A c \in Cams :
          StopReturned(c)
          => /\ decode_tasks'[c].process = 0
             /\ decode_tasks'[c].status = "stopped"
             /\ frames'[c] = 0]_vars

\* C7: a stop call on a camera with no entry, through either stop
\* operation, answers "not found" as a result and changes nothing: no entry,
\* no signal to a process, no frame removed.
C7_StopOfMissingReportsNotFound ==
    [][\A c \in Cams :
          (c \notin DOMAIN decode_tasks
             /\ (DecodeStopBegin(c) \/ StopDecodeBegin(c)))
          => /\ last'.ev \in {"decode_stop_not_found", "stop_decode_not_found"}
             /\ decode_tasks' = decode_tasks
             /\ procs' = procs
             /\ frames' = frames]_vars

\* C8: a status call that follows the return of a stop call at once reports
\* frame_count 0, for both stop operations.
C8_StatusAfterStopCountsZero ==
    [][\A c \in Cams :
          StopReturned(c) => StatusReply(c)'.frame_count = 0]_vars

\* C9: a stop call on a running process sends SIGTERM first and does not
\* kill; when it returns, the process had been sent SIGTERM, one that exited
\* by itself kept its return code (it was not killed), and the process does
\* not run any more, also when it ignored SIGTERM.
C9_TerminateWaitKill ==
    [][\A c \in Cams :
          /\ ((DecodeStopBegin(c) \/ StopDecodeBegin(c)) /\ run'.op # "idle")
             => /\ procs[run'.proc].state = "running"
                /\ procs'[run'.proc].state = "terminating"
                /\ run'.proc = decode_tasks[c].process
          /\ (StopReturned(c) /\ run.op # "idle")
             => /\ procs[run.proc].state \in {"terminating", "exited"}
                /\ procs[run.proc].state = "exited"
                   => procs'[run.proc] \in {procs[run.proc], Free}
                /\ ~Alive(procs', run.proc)
          /\ StopReturned(c)
             => \/ decode_tasks'[c].process = 0
                \/ ~Alive(procs', decode_tasks'[c].process)]_vars

\* C9 witness: POST /decode/stop/ returned and the process of the entry,
\* which ignored SIGTERM, was killed.
C9_Witness ==
    /\ last.ev = "decode_stop_stopped"
    /\ decode_tasks[last.cam].process # 0
    /\ procs[decode_tasks[last.cam].process].state = "exited"
    /\ procs[decode_tasks[last.cam].process].rc = -9

\* C10: a start call with no force_format launches an accelerated command
\* first; when that process exited within the grace period the software
\* command is launched, once (the handler returns after the second grace
\* period and launches nothing more); when the software process runs after
\* its grace period the call answers "started" and the entry has status
\* "running", last_error none and the software process as handle.
C10_SoftwareFallback ==
    [][\A c \in Cams :
          (run.op = "start" /\ run.cam = c /\ run.force_format = "None")
          => /\ (run.pc = "grace" /\ ~Alive(procs, run.proc)
                   /\ CanSpawn(procs) /\ StartProbe(TRUE))
                => /\ run.hw_accel # "none"
                   /\ run'.pc = "grace_fallback"
                   /\ run'.first = run.proc
                   /\ run'.proc # run.proc
                   /\ procs'[run'.proc] = Proc(c, "none")
                   /\ Cardinality(LiveDecoders(c)') = Cardinality(LiveDecoders(c)) + 1
             /\ (run.pc = "grace_fallback" /\ Alive(procs, run.proc)
                   /\ StartProbeFallback)
                => /\ last'.ev = "started"
                   /\ last'.launches = 2
                   /\ run' = Idle
                   /\ decode_tasks'[c] = Task(run.proc, c, "running", NoError)
                   /\ procs[run.proc].accel = "none"
                   /\ run.proc # run.first
             /\ (run.pc = "grace_fallback" /\ StartProbeFallback)
                => /\ run' = Idle
                   /\ LiveDecoders(c)' \subseteq LiveDecoders(c)]_vars

\* C10 witness: a start call with no force_format answered "started" after
\* two launches, and the handle of the entry is the software process.
C10_Witness ==
    /\ last.ev = "started"
    /\ last.force_format = "None"
    /\ last.launches = 2
    /\ decode_tasks[last.cam].status = "running"
    /\ decode_tasks[last.cam].last_error = NoError
    /\ is_process_running(decode_tasks[last.cam].process)
    /\ procs[decode_tasks[last.cam].process].accel = "none"

C12_InvalidRequestNoEffect ==
    [][\A c \in Cams :
          StartBegin(c, FALSE, FALSE)
          => /\ last'.ev = "start_invalid"
             /\ UNCHANGED <<decode_tasks, task_lock, procs, frames, run, awaiting>>]_vars

\* C12 witness: a start call with no input was refused while the task of
\* the camera runs and its directory holds frames.
C12_Witness ==
    /\ last.ev = "start_invalid"
    /\ last.given = "neither"
    /\ last.cam \in DOMAIN decode_tasks
    /\ is_process_running(decode_tasks[last.cam].process)
    /\ frames[last.cam] > 0

\* C13 as claimed: a start call passes the request check only when it has
\* exactly one of a file and a url; with both, as with neither, it is
\* refused.
C13_ExactlyOneInput ==
    [][\A c \in Cams, file \in BOOLEAN, url \in BOOLEAN :
          StartBegin(c, file, url)
          => (last'.ev = "start_invalid" <=> (file <=> url))]_vars

\* C13 as amended: a start call is refused only when it has neither a file
\* nor a url; a call with both passes the check and, unless the camera is
\* already running, goes on with the file (it is suspended reading it).
C13_AtLeastOneInput ==
    [][\A c \in Cams, file \in BOOLEAN, url \in BOOLEAN :
          StartBegin(c, file, url)
          => /\ last'.ev = "start_invalid" <=> (~file /\ ~url)
             /\ (file /\ url /\ ~AlreadyRunning(c))
                => /\ awaiting'[c] = awaiting[c] + 1
                   /\ run' = run
                   /\ last'.ev = "pending"]_vars

\* C13 witness: a start call with a file and a url passed the request check
\* and is suspended reading the file.
C13_Witness ==
    /\ last.ev = "pending"
    /\ last.given = "both"
    /\ awaiting[last.cam] > 0
    /\ run = Idle

\* C14: a sweep (cleanup with no camera) empties the directory of every
\* camera that has no entry in the registry or whose entry is "stopped", and
\* no other: the directory of a camera whose entry is "running", "completed"
\* or "error" keeps its frames; the sweep changes no entry and no process.
C14_SweepClearsOrphans ==
    [][CleanupOrphans
       => /\ \A c \in Cams :
                frames'[c] =
                   IF c \notin DOMAIN decode_tasks
                      \/ decode_tasks[c].status = "stopped"
                   THEN 0 ELSE frames[c]
          /\ decode_tasks' = decode_tasks
          /\ procs' = procs]_vars

\* C14 witness: a sweep emptied the directory of a stopped camera that held
\* frames, and the directory of the other camera, whose task runs, holds
\* its frames.
C14_Witness ==
    /\ last.ev = "swept"
    /\ \E c \in last.cleared :
          /\ c \in DOMAIN decode_tasks
          /\ decode_tasks[c].status = "stopped"
    /\ \E c \in DOMAIN decode_tasks :
          /\ decode_tasks[c].status = "running"
          /\ frames[c] > 0

\* C15 as claimed: a latest-frame request for a camera whose directory
\* holds frames, the most recent more than 300 seconds old, empties the
\* directory and reports the stale frame, not a missing task and not missing
\* frames; when the most recent frame is at most 300 seconds old it is sent
\* and no frame is deleted.
C15_StaleFrameCleared ==
    [][\A c \in Cams, latest_age \in FrameAges :
          (LatestFrame(c, latest_age) /\ frames[c] > 0)
          => IF latest_age > StaleAfter
             THEN /\ last'.ev = "latest_frame_stale"
                  /\ frames'[c] = 0
             ELSE /\ last'.ev = "latest_frame_sent"
                  /\ frames' = frames]_vars

\* C15 as amended: the same for a camera that has an entry in the registry;
\* the frames of the other cameras, the registry and the processes are left
\* alone.  For a camera with no entry the request reports the missing task
\* and deletes nothing, whatever its directory holds.
C15_StaleFrameOfTaskCleared ==
    [][\A c \in Cams, latest_age \in FrameAges :
          (LatestFrame(c, latest_age) /\ frames[c] > 0)
          => /\ IF c \notin DOMAIN decode_tasks
                THEN /\ last'.ev = "latest_frame_404"
                     /\ frames' = frames
                ELSE IF latest_age > StaleAfter
                THEN /\ last'.ev = "latest_frame_stale"
                     /\ frames' = [frames EXCEPT ![c] = 0]
                ELSE /\ last'.ev = "latest_frame_sent"
                     /\ frames' = frames
             /\ UNCHANGED <<decode_tasks, procs>>]_vars

\* C15 witness: a latest-frame request reported a stale frame and emptied
\* the directory of a camera whose task runs.
C15_Witness ==
    /\ last.ev = "latest_frame_stale"
    /\ last.cam \in DOMAIN decode_tasks
    /\ decode_tasks[last.cam].status = "running"
    /\ frames[last.cam] = 0

\* C16: a cleanup call for camera c empties the directory of c, whether c
\* has no entry or one that is running, completed, in error or stopped; it
\* changes no entry of the registry and no frame of another camera, and
\* signals no process.
C16_TargetedCleanup ==
    [][\A c \in Cams :
          CleanupFrames(c)
          => /\ frames'[c] = 0
             /\ \A x \in Cams \ {c} : frames'[x] = frames[x]
             /\ decode_tasks' = decode_tasks
             /\ procs' = procs]_vars

\* C16 witness: a cleanup call emptied the directory of a camera whose task
\* runs; the task and its process still run, and the directory of the other
\* camera holds its frames.
C16_Witness ==
    /\ last.ev = "cleaned"
    /\ last.cleared = {last.cam}
    /\ last.cam \in DOMAIN decode_tasks
    /\ decode_tasks[last.cam].status = "running"
    /\ is_process_running(decode_tasks[last.cam].process)
    /\ \E x \in Cams \ {last.cam} : frames[x] > 0

\* C17: when the forced backend is a name of the priority list ("none"
\* included), the resolver returns that name and runs no probe, whatever
\* the outcome of any probe would be.
C17_ForcedMemberReturned ==
    (resolved.result # "-" /\ resolved.force_format \in Members(resolved.options))
    => /\ resolved.result = resolved.force_format
       /\ resolved.probed = <<>>

\* C17 witness: the resolver returned the forced backend "rkmpp" where every
\* probe, that of "rkmpp" included, would have failed.
C17_Witness ==
    /\ resolved.force_format = "rkmpp"
    /\ resolved.options = HW_ACCEL_OPTIONS
    /\ \A a \in DOMAIN resolved.probe : resolved.probe[a] # "ok"
    /\ resolved.result = "rkmpp"
    /\ resolved.probed = <<>>

\* C18: when the forced backend is a name that is not in the priority list,
\* the resolver does what it does with no forced backend: the same probes in
\* the same order and the same result, for every outcome of the probes.
C18_ForcedUnknownIgnored ==
    (/\ resolved.result # "-"
     /\ resolved.force_format # "None"
     /\ resolved.force_format \notin Members(resolved.options))
    => LET unforced == get_best_hwaccel(resolved.options, "None", resolved.probe)
       IN /\ resolved.result = unforced.result
          /\ resolved.probed = unforced.probed

\* C18 witness: with the forced name "cuda" the resolver probed "rkmpp",
\* which failed, then "v4l2", and returned "v4l2".
C18_Witness ==
    /\ resolved.force_format = "cuda"
    /\ resolved.options = HW_ACCEL_OPTIONS
    /\ resolved.probed = <<"rkmpp", "v4l2">>
    /\ resolved.result = "v4l2"

\* C19: with no forced backend of the priority list, let i be the first
\* position of the list that holds "none" or a backend whose probe exits
\* with code 0.  The resolver returns the name at i, having probed the
\* backends before i and, unless it is "none", the one at i, and no other;
\* when there is no such position it returns "none", having probed every
\* backend.  The result is a name of the list or "none".
C19_FirstAvailableInOrder ==
    (/\ resolved.result # "-"
     /\ resolved.force_format \notin Members(resolved.options))
    => LET options == resolved.options
           Hit(i) == options[i] = "none" \/ resolved.probe[options[i]] = "ok"
           Hits == {i \in 1..Len(options) : Hit(i)}
           first == CHOOSE i \in Hits : \A j \in Hits : i <= j
       IN /\ IF Hits = {}
             THEN /\ resolved.result = "none"
                  /\ resolved.probed = options
             ELSE /\ resolved.result = options[first]
                  /\ resolved.probed =
                        SubSeq(options, 1,
                               IF options[first] = "none" THEN first - 1 ELSE first)
          /\ resolved.result \in Members(options) \cup {"none"}

\* C20: no failure of a probe is raised to the caller of the resolver: after
\* a probe that did not exit with code 0 the resolver goes on, to the next
\* name of the list or, at its end, to the answer "none".
C20_ProbeFailureSwallowed ==
    /\ resolved.result # "raise"
    /\ \A i \in 1..Len(resolved.probed) :
          resolved.probe[resolved.probed[i]] # "ok"
          => (i < Len(resolved.probed) \/ resolved.result = "none")

\* C21: the commands hold "-rtsp_transport", "tcp", once and before "-i",
\* exactly when the input starts with "rtsp://", and do not hold
\* "-rtsp_transport" for any other input; they hold "-hwaccel" followed by
\* the backend, before "-i", exactly for "rkmpp" and "v4l2" and no "-hwaccel"
\* for "none" and "rga"; the filter chain of "rga", and of no other backend,
\* holds the rga filter.  The fallback command is a command of "none".
C21_TransportAndAccelFlags ==
    built.ffmpeg_cmd # <<>>
    => LET rtsp == built.input_path_str \in {"rtsp://h/live", "rtsp://"}
           Flags(cmd, backend) ==
              LET input == CHOOSE i \in Positions(cmd, "-i") :
                              \A j \in Positions(cmd, "-i") : i <= j
                  vf == cmd[(CHOOSE i \in Positions(cmd, "-vf") : TRUE) + 1]
                  chain == Filters(vf)
              IN /\ cmd[input + 1] = built.input_path_str
                 /\ IF rtsp
                    THEN \E i \in 1..(input - 2) :
                            /\ Positions(cmd, "-rtsp_transport") = {i}
                            /\ cmd[i + 1] = "tcp"
                    ELSE Positions(cmd, "-rtsp_transport") = {}
                 /\ IF backend \in {"rkmpp", "v4l2"}
                    THEN \E i \in 1..(input - 2) :
                            /\ Positions(cmd, "-hwaccel") = {i}
                            /\ cmd[i + 1] = backend
                    ELSE Positions(cmd, "-hwaccel") = {}
                 /\ (backend = "rga")
                    <=> (\E k \in 1..Len(chain) : chain[k] = "rga=format=rgb24")
       IN /\ Flags(built.ffmpeg_cmd, built.hw_accel)
          /\ Flags(built.fallback_cmd, "none")
          /\ Flags(built.command, built.hw_accel)

\* C21 witness: the command for an rtsp url and the backend "rga" was built:
\* it holds the transport flags, no "-hwaccel", and the rga filter.
C21_Witness ==
    /\ built.input_path_str = "rtsp://h/live"
    /\ built.hw_accel = "rga"
    /\ built.fps = 25
    /\ built.ffmpeg_cmd =
          <<"ffmpeg", "-rtsp_transport", "tcp", "-i", "rtsp://h/live",
            "-vf", "fps=25,format=rgb24,rga=format=rgb24",
            "/app/frames/cam1/frame_%04d.jpg">>

\* C22: in every command the value of -vf is the frame-rate filter, then
\* the pixel-format filter, then for "rga" the rga filter and for the other
\* backends nothing; and the last argument is the output template.
C22_FilterChainOrder ==
    built.ffmpeg_cmd # <<>>
    => LET Chain(cmd, backend) ==
              LET vf == cmd[(CHOOSE i \in Positions(cmd, "-vf") : TRUE) + 1]
                  chain == Filters(vf)
              IN /\ Cardinality(Positions(cmd, "-vf")) = 1
                 /\ Len(chain) = IF backend = "rga" THEN 3 ELSE 2
                 /\ chain[1] = "fps=" \o ToString(built.fps)
                 /\ chain[2] = "format=rgb24"
                 /\ backend = "rga" => chain[3] = "rga=format=rgb24"
           dir == "/app/frames/" \o built.camera_id
       IN /\ Chain(built.ffmpeg_cmd, built.hw_accel)
          /\ Chain(built.fallback_cmd, "none")
          /\ Chain(built.command, built.hw_accel)
          /\ built.ffmpeg_cmd[Len(built.ffmpeg_cmd)] = dir \o "/frame_%04d.jpg"
          /\ built.fallback_cmd[Len(built.fallback_cmd)] = dir \o "/frame_%04d.jpg"
          /\ built.command[Len(built.command)]
                = dir \o "/" \o built.camera_id \o "_%04d.jpg"

\* C22 witness: the command for an uploaded file and the backend "rga" was
\* built: three filters in the order of the claim, the template last.
C22_Witness ==
    /\ built.input_path_str = "/app/videos/rtsp:/v.mp4"
    /\ built.hw_accel = "rga"
    /\ built.fps = 1
    /\ Len(built.ffmpeg_cmd) = 6
    /\ Filters(built.ffmpeg_cmd[5]) = <<"fps=1", "format=rgb24", "rga=format=rgb24">>
    /\ built.ffmpeg_cmd[6] = "/app/frames/cam1/frame_%04d.jpg"

C24_RegistryAccessUnderLock ==
    (at.path # <<>> /\ at.i > 0 /\ Statement.does \in {"get", "set"})
    => task_lock = "held"

\* C24 witness: while a start call is suspended in its await, stop_decode
\* (/decode/stop/) writes the status of an entry (routes.py:357) with the
\* lock held.
C24_Witness ==
    /\ at.path # <<>>
    /\ at.i > 0
    /\ Statement = [line |-> 357, does |-> "set"]
    /\ Len(at.parked) > 0
    /\ task_lock = "held"

\* C25: no handler holds task_lock while it sleeps or waits for a process:
\* during the grace periods of a start call and during the waits of the two
\* stop calls the lock is free.
C25_NoLockAcrossWaits ==
    (run.op # "idle" /\ run.pc \in {"grace", "grace_fallback", "wait", "sleep"})
    => task_lock = "free"

\* C26: every entry of decode_tasks that an operation can observe is one
\* that a single operation wrote as a whole: a running entry with a handle
\* and no last_error, an error entry with a last_error, a stopped entry with
\* no handle and no last_error, or a completed entry with no last_error;
\* never a mix of the fields two operations wrote.
C26_EntriesWrittenWhole ==
    \A c \in DOMAIN decode_tasks :
        LET task == decode_tasks[c]
        IN \/ /\ task.status = "running"
              /\ task.process # 0
              /\ task.last_error = NoError
           \/ /\ task.status = "error"
              /\ task.last_error # NoError
           \/ /\ task.status = "stopped"
              /\ task.process = 0
              /\ task.last_error = NoError
           \/ /\ task.status = "completed"
              /\ task.last_error = NoError

\* C27: the status of a camera (not_started while it has no entry) changes
\* only in these ways: a start call that returns replaces the entry and
\* leaves it running or, when the launch failed, in error; a running entry
\* becomes completed, error or stopped; an error entry becomes stopped by a
\* stop call. In particular no operation changes completed to stopped, and a
\* status call changes no stopped, completed or error entry.
C27_StatusTransitions ==
    [][\A c \in Cams :
          LET old == IF c \in DOMAIN decode_tasks
                     THEN decode_tasks[c].status ELSE "not_started"
              new == IF c \in DOMAIN decode_tasks'
                     THEN decode_tasks'[c].status ELSE "not_started"
          IN old # new
             => \/ /\ run.op = "start"
                   /\ run.cam = c
                   /\ run' = Idle
                   /\ new \in {"running", "error"}
                \/ <<old, new>> \in {<<"running", "completed">>,
                                     <<"running", "error">>,
                                     <<"running", "stopped">>}
                \/ /\ <<old, new>> = <<"error", "stopped">>
                   /\ StopReturned(c)]_vars

\* C28: in every reachable state, every entry of decode_tasks whose
\* last_error is set has status "error".
C28_LastErrorOnlyInError ==
    \A c \in DOMAIN decode_tasks :
        decode_tasks[c].last_error # NoError => decode_tasks[c].status = "error"

\* C29: a start call launches a decoder only into an empty camera directory
\* (the frames of earlier runs are cleared before every launch), and between
\* the launch and the return of the call no other decoder of the camera is
\* alive to write into it; so every frame a status call counts right after
\* the call returned was written by the decoder the call launched, and the
\* count is 0 before that decoder writes its first frame.
C29_StartClearsFrames ==
    [][\A c \in Cams :
          /\ (\E p \in Pids : /\ ~Alive(procs, p)
                              /\ Alive(procs', p)
                              /\ procs'[p].cam = c)
             => frames'[c] = 0
          /\ (run'.op = "start" /\ run'.cam = c
                 /\ run'.pc \in {"grace", "grace_fallback"})
             => LiveDecoders(c)' \subseteq {run'.proc}]_vars

\* C30: a status call for a camera that has no entry answers "not_started"
\* with frame_count 0 and no last_error, whatever frames its directory
\* holds, and leaves the registry without an entry for it (and the frames
\* and processes as they were).
C30_StatusOfUnknownCamera ==
    [][\A c \in Cams :
          (DecodeStatus(c) /\ c \notin DOMAIN decode_tasks)
          => /\ StatusReply(c) = [status |-> "not_started", frame_count |-> 0,
                                  last_error |-> NoError]
             /\ decode_tasks' = decode_tasks
             /\ c \notin DOMAIN decode_tasks'
             /\ frames' = frames
             /\ procs' = procs]_vars

\* C30 witness: a status call was made for a camera that has no entry and
\* whose directory holds frames, while the other camera has an entry.
C30_Witness ==
    /\ last.ev = "status"
    /\ last.cam \notin DOMAIN decode_tasks
    /\ frames[last.cam] > 0
    /\ DOMAIN decode_tasks # {}

\* C31: a stop call (through either stop operation) that directly follows
\* the return of a stop call for the same camera, or that finds the entry
\* of the camera already stopped, returns at once with the same outcome
\* (stopped, or not found for a missing entry) and changes neither the
\* registry nor any process nor any frame directory.
C31_StopIdempotent ==
    [][\A c \in Cams :
          LET Stopped == {"decode_stop_stopped", "stop_decode_stopped"}
              Missing == {"decode_stop_404", "stop_decode_not_found"}
          IN (/\ DecodeStopBegin(c) \/ StopDecodeBegin(c)
              /\ \/ last.cam = c /\ last.ev \in Stopped \cup Missing
                 \/ c \in DOMAIN decode_tasks /\ decode_tasks[c].status = "stopped")
             => /\ decode_tasks' = decode_tasks
                /\ procs' = procs
                /\ frames' = frames
                /\ last'.ev \in Stopped \cup Missing
                /\ last'.ev \in Missing <=> c \notin DOMAIN decode_tasks]_vars

\* C32: a start call with an input answers "already_running" exactly when
\* the camera has an entry with status "running" whose process is alive or
\* whose handle is none; in every other case, also when the entry says
\* "running" and its process has exited, the call goes on to launch.
C32_AlreadyRunningExactly ==
    [][\A c \in Cams :
          StartCalled(c)
          => (last'.ev = "already_running"
              <=> /\ c \in DOMAIN decode_tasks
                  /\ decode_tasks[c].status = "running"
                  /\ \/ is_process_running(decode_tasks[c].process)
                     \/ decode_tasks[c].process = 0)]_vars

\* C33: a status call changes nothing but the entry of the camera it asks
\* for, and that entry only when it says "running" and its process has
\* exited: then the status becomes "completed" or "error" (with a
\* last_error) and the handle and the directory stay.  For an entry
\* with no handle it answers the recorded status and the number of frames in
\* the directory and changes nothing.  It changes no process and no frame.
C33_StatusReadOnly ==
    [][\A c \in Cams :
          DecodeStatus(c)
          => /\ procs' = procs
             /\ frames' = frames
             /\ \A d \in DOMAIN decode_tasks \ {c} : decode_tasks'[d] = decode_tasks[d]
             /\ DOMAIN decode_tasks' = DOMAIN decode_tasks
             /\ c \in DOMAIN decode_tasks
                => LET task == decode_tasks[c] IN
                   /\ decode_tasks'[c] # task
                      => /\ task.status = "running"
                         /\ task.process # 0
                         /\ ~Alive(procs, task.process)
                         /\ decode_tasks'[c].status \in {"completed", "error"}
                         /\ decode_tasks'[c].process = task.process
                         /\ decode_tasks'[c].output_folder = task.output_folder
                   /\ task.process = 0
                      => /\ decode_tasks'[c] = task
                         /\ StatusReply(c).status = task.status
                         /\ StatusReply(c).frame_count = frames[c]]_vars

\* C33 witness: a status call was made for an entry that has no handle
\* while its directory holds frames, and the other camera's decoder runs.
C33_Witness ==
    /\ last.ev = "status"
    /\ last.cam \in DOMAIN decode_tasks
    /\ decode_tasks[last.cam].process = 0
    /\ frames[last.cam] > 0
    /\ \E d \in DOMAIN decode_tasks :
          d # last.cam /\ is_process_running(decode_tasks[d].process)

\* C34: whenever no start call is in flight (none runs and none is
\* suspended in its await), every live decoder is the process handle of the
\* registry entry of its camera.
C34_LiveDecodersReferenced ==
    (run.op # "start" /\ \A c \in Cams : awaiting[c] = 0)
    => \A p \in Pids :
          Alive(procs, p)
          => /\ procs[p].cam \in DOMAIN decode_tasks
             /\ decode_tasks[procs[p].cam].process = p

\* C35: the sweep of orphaned frames never empties the directory of a
\* camera for which a decoder is alive: such a directory holds after the
\* sweep the frames it held before.
C35_SweepSparesLiveDecoders ==
    [][CleanupOrphans
       => \A c \in Cams :
             LiveDecoders(c) # {} => frames'[c] = frames[c]]_vars

\* This step is a step of a start, stop, status, latest-frame or targeted
\* cleanup call for camera a.
OperationOn(a) ==
    \/ \E file \in BOOLEAN, url \in BOOLEAN : StartBegin(a, file, url)
    \/ StartResume(a)
    \/ /\ run.cam = a
       /\ \/ \E ff \in ForceFormats, hw_accel \in Accels \cup {"raise"},
                popen_ok \in BOOLEAN : StartLaunch(ff, hw_accel, popen_ok)
          \/ \E popen_ok \in BOOLEAN : StartProbe(popen_ok)
          \/ StartProbeFallback
          \/ DecodeStopWait
          \/ StopDecodeWake
    \/ DecodeStopBegin(a)
    \/ StopDecodeBegin(a)
    \/ DecodeStatus(a)
    \/ CleanupFrames(a)
    \/ \E latest_age \in FrameAges : LatestFrame(a, latest_age)

C37_RunningHasHandle ==
    \A c \in DOMAIN decode_tasks :
        decode_tasks[c].status = "running"
        => /\ decode_tasks[c].process # 0
           /\ procs[decode_tasks[c].process].state # "free"

\* C37 witness: the decoder of a running entry exited, and the start call
\* that followed was answered "already_running" by the second branch of the
\* check: the entry says "running" and holds the handle of that process.
C37_Witness ==
    /\ last.ev = "already_running"
    /\ last.after = "exit"
    /\ decode_tasks[last.cam].status = "running"
    /\ decode_tasks[last.cam].process # 0
    /\ ~is_process_running(decode_tasks[last.cam].process)

\* C38: in every reachable state every entry with status "error" has a
\* last_error, and every entry with status "running" has none.
C38_ErrorHasMessageRunningHasNone ==
    \A c \in DOMAIN decode_tasks :
        /\ decode_tasks[c].status = "error" => decode_tasks[c].last_error # NoError
        /\ decode_tasks[c].status = "running" => decode_tasks[c].last_error = NoError

\* C38 witness: a start call failed after both commands exited and left an
\* error entry whose last_error holds the decoder's diagnostic.
C38_Witness ==
    /\ last.ev = "start_failed"
    /\ decode_tasks[last.cam].status = "error"
    /\ decode_tasks[last.cam].last_error.kind = "Failed to start decode"
    /\ decode_tasks[last.cam].last_error.diagnostic

\* C39: for every source and fps the software command that a start call
\* launches after the first command failed is the command it builds for the
\* backend "none"; and for every source, backend and fps the command of the
\* start call and the command of decode_video2frames_in_jpeg are the same
\* between the executable and the output template: the same flags, the same
\* input and the same filter chain, in the same order.
C39_BuildersAgree ==
    built.ffmpeg_cmd # <<>>
    => /\ built.fallback_cmd =
             ffmpeg_cmd(built.input_path_str, "none", built.fps,
                        output_folder(built.camera_id))
       /\ built.hw_accel = "none" => built.fallback_cmd = built.ffmpeg_cmd
       /\ Len(built.command) = Len(built.ffmpeg_cmd)
       /\ SubSeq(built.command, 2, Len(built.command) - 1)
             = SubSeq(built.ffmpeg_cmd, 2, Len(built.ffmpeg_cmd) - 1)

\* C39 witness: the builders ran for an rtsp source and the backend rkmpp:
\* the software command differs from the accelerated one, and the two
\* builders' commands differ in their output template.
C39_Witness ==
    /\ built.hw_accel = "rkmpp"
    /\ startswith(built.input_path_str, "rtsp://")
    /\ Positions(built.fallback_cmd, "-rtsp_transport") # {}
    /\ built.fallback_cmd # built.ffmpeg_cmd
    /\ built.command # built.ffmpeg_cmd
    /\ built.command[Len(built.command)] # built.ffmpeg_cmd[Len(built.ffmpeg_cmd)]

====
